---- MODULE Spec2Model ----
(***************************************************************************)
(* Model of the debate orchestrator of consensys                           *)
(* (src/src/orchestrator/debate.py, class DebateOrchestrator).             *)
(*                                                                         *)
(* One action per public handler: start_review, run_responses, run_voting, *)
(* build_consensus and run_full_debate.  Each handler is an operator from  *)
(* the orchestrator object (a record, `Self`) to the object after the      *)
(* call; the reviewer calls and the order in which their futures complete  *)
(* are inputs of the handler.                                              *)
(***************************************************************************)
EXTENDS Integers, Sequences, FiniteSets, TLC

VARIABLES
    agents,       \* self.agents, by persona name, in panel order
    session_id,   \* self.session_id (0 is None)
    code,         \* self.code
    context,      \* self.context
    reviews,      \* self.reviews
    responses,    \* self.responses
    votes,        \* self.votes
    consensus,    \* self.consensus (<<>> is None, <<c>> is a Consensus)
    storage,      \* the Storage object: what was saved, in call order
    outcome,      \* the last handler call: its name, the error it raised,
                  \* the reviewer calls it dispatched and those that failed
                  \* (for the constructor: its personas argument; for
                  \* run_voting: what its vote calls were given)
    faults,       \* number of fault events injected so far
    nops,         \* number of handler calls made so far
    stages,       \* history: the stages that have returned normally since
                  \* the last create_session
    round         \* the thread pool of the round in progress, in the
                  \* step-by-step debates of SpecRound

vars == <<agents, session_id, code, context, reviews, responses, votes,
          consensus, storage, outcome, faults, nops, stages, round>>

----------------------------------------------------------------------------
(* Bounds of the model *)

\* handler calls in one behaviour
MaxOps == 2
\* fault events in one behaviour (a failing call, or a round in which
\* every call fails)
MaxFaults == 1
\* issue mentions (resp. suggestion mentions) over all Reviews, for the
\* aggregation inputs
MaxMentions == 2

----------------------------------------------------------------------------
(* Values *)

NoSession == 0
NoneStr == "<None>"
NoError == "none"
ErrNoReviewsRespond == "ValueError: No reviews to respond to"
ErrNoReviewsVote == "ValueError: No reviews to base votes on"
ErrNoVotes == "ValueError: No votes to build consensus from"
ErrNoSession == "ValueError: No active session"
ErrMaxWorkers == "ValueError: max_workers must be greater than 0"
ErrStorage == "Exception raised by a Storage save call"
ErrInvalidResult == "AttributeError: result has no such attribute"

PERSONAS ==
    <<"SecurityExpert", "PerformanceEngineer", "ArchitectureCritic",
      "PragmaticDev">>

VoteDecision == {"APPROVE", "REJECT", "ABSTAIN"}
Severities == {"LOW", "MEDIUM", "HIGH", "CRITICAL"}

\* Python's order on the persona names (str.__lt__), as ranks
StrRank ==
    [n \in {"SecurityExpert", "PerformanceEngineer", "ArchitectureCritic",
            "PragmaticDev"} |->
        CASE n = "ArchitectureCritic" -> 1
          [] n = "PerformanceEngineer" -> 2
          [] n = "PragmaticDev" -> 3
          [] n = "SecurityExpert" -> 4]

Range(s) == {s[i] : i \in 1..Len(s)}

RECURSIVE Reverse(_)
Reverse(s) == IF s = <<>> THEN <<>> ELSE Append(Reverse(Tail(s)), Head(s))

\* bool(x) of a str field that may be None
TruthyStr(s) == s /= NoneStr /\ s /= ""

----------------------------------------------------------------------------
(* Texts: issue descriptions and suggestions are strings, modelled as      *)
(* sequences of characters, with str.lower() and str.strip().              *)

Lower(c) ==
    CASE c = "A" -> "a"
      [] c = "B" -> "b"
      [] OTHER -> c

RECURSIVE LStrip(_)
LStrip(s) ==
    IF s = <<>> THEN s
    ELSE IF Head(s) = " " THEN LStrip(Tail(s)) ELSE s

RECURSIVE RStrip(_)
RStrip(s) ==
    IF s = <<>> THEN s
    ELSE IF s[Len(s)] = " " THEN RStrip(SubSeq(s, 1, Len(s) - 1)) ELSE s

\* desc.lower().strip()
Normalize(s) == RStrip(LStrip([i \in 1..Len(s) |-> Lower(s[i])]))

Texts == { <<"a">>, <<" ", "A", " ">>, <<"b">> }

IssueRecords == [description : Texts, severity : Severities]

----------------------------------------------------------------------------
(* Python containers *)

\* a dict, as the sequence of its <<key, value>> items in insertion order
DictHas(d, k) == \E i \in 1..Len(d) : d[i][1] = k

DictGet(d, k, default) ==
    IF DictHas(d, k)
    THEN d[CHOOSE i \in 1..Len(d) : d[i][1] = k][2]
    ELSE default

\* d[k] = v
DictSet(d, k, v) ==
    IF DictHas(d, k)
    THEN [i \in 1..Len(d) |-> IF d[i][1] = k THEN <<k, v>> ELSE d[i]]
    ELSE Append(d, <<k, v>>)

\* Python's < on str (the persona names) and on tuples of two str
StrLess(a, b) == StrRank[a] < StrRank[b]

TupleLess(k1, k2) ==
    \/ StrLess(k1[1], k2[1])
    \/ k1[1] = k2[1] /\ StrLess(k1[2], k2[2])

\* the Responses sorted by their author only
ResponseKey_AgentOnly(r) == <<r.agent_name, r.agent_name>>

\* key=lambda r: (r.agent_name, r.responding_to)
ResponseKey(r) == <<r.agent_name, r.responding_to>>

\* key=lambda v: v.agent_name
VoteKey(v) == v.agent_name

\* list.sort is stable: an element goes after the elements it is not less than
RECURSIVE InsertResponse(_, _)
InsertResponse(sorted, x) ==
    IF sorted = <<>> THEN <<x>>
    ELSE IF TupleLess(ResponseKey(x), ResponseKey(Head(sorted)))
         THEN <<x>> \o sorted
         ELSE <<Head(sorted)>> \o InsertResponse(Tail(sorted), x)

\* completed_responses.sort(key=lambda r: (r.agent_name, r.responding_to))
RECURSIVE SortResponses(_)
SortResponses(s) ==
    IF s = <<>> THEN <<>>
    ELSE InsertResponse(SortResponses(SubSeq(s, 1, Len(s) - 1)), s[Len(s)])

RECURSIVE InsertVote(_, _)
InsertVote(sorted, x) ==
    IF sorted = <<>> THEN <<x>>
    ELSE IF StrLess(VoteKey(x), VoteKey(Head(sorted)))
         THEN <<x>> \o sorted
         ELSE <<Head(sorted)>> \o InsertVote(Tail(sorted), x)

\* completed_votes.sort(key=lambda v: v.agent_name)
RECURSIVE SortVotes(_)
SortVotes(s) ==
    IF s = <<>> THEN <<>>
    ELSE InsertVote(SortVotes(SubSeq(s, 1, Len(s) - 1)), s[Len(s)])

----------------------------------------------------------------------------
(* The collaborators: Storage (src/db/storage.py) and Agent                *)
(* (src/agents/agent.py).  Storage keeps what it is given, in call order;  *)
(* an agent reports its own persona name and the name of the review it     *)
(* responds to.                                                            *)

EmptyStorage ==
    [sessions |-> <<>>, reviews |-> <<>>, responses |-> <<>>, votes |-> <<>>,
     consensus |-> <<>>, failing |-> {}]

\* a save call, by the kind and the authors of the artifact it is given
SaveCall(kind, agent_name, responding_to) == <<kind, agent_name, responding_to>>

\* the save call raises (the database is locked, the disk is full, ...)
SaveFails(st, call) == call \in st.failing

\* Storage.create_session(code, context): a fresh session id
NewSessionId(st) == Len(st.sessions) + 1

create_session(st, c, ctx) ==
    [st EXCEPT !.sessions =
        Append(@, [id |-> NewSessionId(st), code |-> c, context |-> ctx])]

save_review(st, review, sid) ==
    [st EXCEPT !.reviews = Append(@, <<sid, review>>)]

save_response(st, response, sid) ==
    [st EXCEPT !.responses = Append(@, <<sid, response>>)]

save_vote(st, vote, sid) ==
    [st EXCEPT !.votes = Append(@, <<sid, vote>>)]

save_consensus(st, c) ==
    [st EXCEPT !.consensus = Append(@, c)]

\* what each reviewer finds in the code under review, in the debates of Spec
AgentFindings ==
    [a \in Range(PERSONAS) |->
        CASE a = "SecurityExpert" ->
               [issues |-> <<[description |-> <<"a">>, severity |-> "CRITICAL"]>>,
                suggestions |-> <<<<"a">>>>]
          [] a = "PerformanceEngineer" ->
               [issues |-> <<[description |-> <<" ", "A", " ">>, severity |-> "LOW"]>>,
                suggestions |-> <<<<" ", "A", " ">>, <<"b">>>>]
          [] a = "ArchitectureCritic" ->
               [issues |-> <<[description |-> <<"b">>, severity |-> "MEDIUM"]>>,
                suggestions |-> <<>>]
          [] a = "PragmaticDev" ->
               [issues |-> <<>>, suggestions |-> <<<<"b">>>>]]

\* what an agent finds when its answer cannot be made into a full result
Malformed == [malformed |-> TRUE]
MalformedDecision == "<malformed>"

\* Agent.review(code, context) -> ReviewResult, given what the agent finds;
\* a malformed answer gives a result without its required fields
Agent_review(a, findings) ==
    IF findings[a] = Malformed
    THEN [agent_name |-> a]
    ELSE [agent_name |-> a,
          issues |-> findings[a].issues,
          suggestions |-> findings[a].suggestions]

\* Agent.respond_to(review, code) -> ResponseResult
Agent_respond_to(a, review_result) ==
    [agent_name |-> a, responding_to |-> review_result.agent_name]

\* Agent.vote(code, reviews, responses) -> VoteResult
Agent_vote(a, decision) ==
    IF decision = MalformedDecision
    THEN [agent_name |-> a]
    ELSE [agent_name |-> a, decision |-> decision]

----------------------------------------------------------------------------
(* The orchestrator object `o`: its fields, the Storage it writes to, and  *)
(* the record of the handler call in progress (raised, calls, failed).     *)

\* the handler hands no Reviews and no Responses to its calls
NoArguments ==
    [code |-> NoneStr, review_results |-> <<>>, response_results |-> <<>>]

\* a reviewer call handed to the thread pool
Task(kind, agent, target) == <<kind, agent, target>>

\* as_completed(...): the futures in the order in which they complete
CompletionOrders == {"submitted", "reversed"}

Completed(tasks, order) ==
    IF order = "submitted" THEN tasks ELSE Reverse(tasks)

\* DebateOrchestrator.__init__(personas)
init(personas) ==
    [agents |-> IF personas = <<>> THEN PERSONAS ELSE personas,
     session_id |-> NoSession,
     code |-> NoneStr,
     context |-> NoneStr,
     reviews |-> <<>>,
     responses |-> <<>>,
     votes |-> <<>>,
     consensus |-> <<>>]

Raise(o, error) == [o EXCEPT !.raised = error]

(* ---- Round 1: start_review ---- *)

\* one future per agent, in panel order
ReviewTasks(o) ==
    [i \in 1..Len(o.agents) |-> Task("review", o.agents[i], "")]

\* the as_completed loop: completed_reviews[agent_name] = result
RECURSIVE CollectReviews(_, _, _, _)
CollectReviews(done, failed, findings, completed_reviews) ==
    IF done = <<>> THEN completed_reviews
    ELSE LET t == Head(done)
             next == IF t \in failed
                     THEN completed_reviews
                     ELSE DictSet(completed_reviews, t[2],
                                  Agent_review(t[2], findings))
         IN CollectReviews(Tail(done), failed, findings, next)

\* result.issues, result.suggestions, ... can be read
IsReviewResult(result) ==
    {"agent_name", "issues", "suggestions"} \subseteq DOMAIN result

\* Review(agent_name=result.agent_name, ..., session_id=self.session_id)
ReviewModel(result, sid) ==
    [agent_name |-> result.agent_name,
     issues |-> result.issues,
     suggestions |-> result.suggestions,
     session_id |-> sid]

\* the Reviews stored in the order of completed_reviews, the completion order
RECURSIVE StoreReviews_CompletionOrder(_, _, _)
StoreReviews_CompletionOrder(o, rest, completed_reviews) ==
    IF completed_reviews = <<>> THEN o
    ELSE LET review == ReviewModel(Head(completed_reviews)[2], o.session_id)
         IN StoreReviews_CompletionOrder(
                [o EXCEPT !.storage = save_review(@, review, o.session_id),
                          !.reviews = Append(@, review)],
                rest, Tail(completed_reviews))

\* for agent in self.agents: convert, save_review, self.reviews.append
RECURSIVE StoreReviews(_, _, _)
StoreReviews(o, rest, completed_reviews) ==
    IF rest = <<>> THEN o
    ELSE IF DictHas(completed_reviews, Head(rest))
    THEN LET result == DictGet(completed_reviews, Head(rest), <<>>)
             review == ReviewModel(result, o.session_id)
         IN IF ~IsReviewResult(result)
            THEN Raise(o, ErrInvalidResult)
            ELSE IF SaveFails(o.storage, SaveCall("review", review.agent_name, ""))
            THEN Raise(o, ErrStorage)
            ELSE StoreReviews(
                [o EXCEPT !.storage = save_review(@, review, o.session_id),
                          !.reviews = Append(@, review)],
                Tail(rest), completed_reviews)
    ELSE StoreReviews(o, Tail(rest), completed_reviews)

\* start_review creating a session only when the object has none yet
start_review_begin_SameSession(o, c, ctx) ==
    IF o.session_id = NoSession
    THEN [o EXCEPT !.session_id = NewSessionId(o.storage),
                   !.storage = create_session(@, c, ctx),
                   !.code = c, !.context = ctx, !.reviews = <<>>,
                   !.stages = {}]
    ELSE [o EXCEPT !.code = c, !.context = ctx, !.reviews = <<>>,
                   !.stages = {}]

\* start_review up to the submission of the futures: the new session
start_review_begin(o, c, ctx) ==
    [o EXCEPT !.session_id = NewSessionId(o.storage),
              !.storage = create_session(@, c, ctx),
              !.code = c,
              !.context = ctx,
              !.reviews = <<>>,
              !.stages = {}]

\* start_review from the as_completed loop on; `done` is the futures in
\* the order in which they completed
start_review_join(o1, findings, failed, done) ==
    LET tasks == ReviewTasks(o1)
        completed_reviews == CollectReviews(done, failed, findings, <<>>)
        o2 == [o1 EXCEPT !.calls = @ \o tasks,
                         !.failed = @ \cup (failed \cap Range(tasks))]
        o3 == StoreReviews(o2, o2.agents, completed_reviews)
    IN IF o3.raised /= NoError THEN o3
       ELSE [o3 EXCEPT !.stages = {"review"}]

start_review(o, c, ctx, findings, failed, order) ==
    LET o1 == start_review_begin(o, c, ctx)
    IN IF Len(o.agents) = 0
       THEN Raise(o1, ErrMaxWorkers)
       ELSE start_review_join(o1, findings, failed,
                              Completed(ReviewTasks(o1), order))

(* ---- Round 2: run_responses ---- *)

\* ReviewResult(agent_name=review.agent_name, ...)
ReviewResultOf(review) ==
    [agent_name |-> review.agent_name,
     issues |-> review.issues,
     suggestions |-> review.suggestions]

\* review_results[review.agent_name] = ReviewResult(...)
RECURSIVE ReviewResultsDict(_, _)
ReviewResultsDict(rs, d) ==
    IF rs = <<>> THEN d
    ELSE ReviewResultsDict(Tail(rs),
            DictSet(d, Head(rs).agent_name, ReviewResultOf(Head(rs))))

\* self-responses not skipped
IsResponseTask_WithSelf(agent, other_agent_name) == agent = agent

\* "Skip self-responses"
IsResponseTask(agent, other_agent_name) == agent /= other_agent_name

\* a task for every review, the agent's own included
RECURSIVE TasksOfAgent_NoSkip(_, _)
TasksOfAgent_NoSkip(agent, items) ==
    IF items = <<>> THEN <<>>
    ELSE <<<<agent, Head(items)[2]>>>> \o TasksOfAgent_NoSkip(agent, Tail(items))

\* for other_agent_name, review_result in review_results.items()
RECURSIVE TasksOfAgent(_, _)
TasksOfAgent(agent, items) ==
    IF items = <<>> THEN <<>>
    ELSE (IF IsResponseTask(agent, Head(items)[1])
          THEN <<<<agent, Head(items)[2]>>>>
          ELSE <<>>) \o TasksOfAgent(agent, Tail(items))

\* only the agents that have a Review of their own respond
RECURSIVE ResponseTasks_ReviewersOnly(_, _)
ResponseTasks_ReviewersOnly(rest, review_results) ==
    IF rest = <<>> THEN <<>>
    ELSE (IF DictHas(review_results, Head(rest))
          THEN TasksOfAgent(Head(rest), review_results)
          ELSE <<>>)
         \o ResponseTasks_ReviewersOnly(Tail(rest), review_results)

\* for agent in self.agents: ... response_tasks.append((agent, review_result))
RECURSIVE ResponseTasks(_, _)
ResponseTasks(rest, review_results) ==
    IF rest = <<>> THEN <<>>
    ELSE TasksOfAgent(Head(rest), review_results)
            \o ResponseTasks(Tail(rest), review_results)

ResponseCalls(response_tasks) ==
    [i \in 1..Len(response_tasks) |->
        Task("respond", response_tasks[i][1], response_tasks[i][2].agent_name)]

\* the first failing call ends the collection
RECURSIVE CollectResponses_AbortOnFailure(_, _)
CollectResponses_AbortOnFailure(done, failed) ==
    IF done = <<>> THEN <<>>
    ELSE LET agent == Head(done)[1]
             review_result == Head(done)[2]
         IN IF Task("respond", agent, review_result.agent_name) \in failed
            THEN <<>>
            ELSE <<Agent_respond_to(agent, review_result)>>
                 \o CollectResponses_AbortOnFailure(Tail(done), failed)

\* the as_completed loop: completed_responses.append(result)
RECURSIVE CollectResponses(_, _)
CollectResponses(done, failed) ==
    IF done = <<>> THEN <<>>
    ELSE LET agent == Head(done)[1]
             review_result == Head(done)[2]
         IN (IF Task("respond", agent, review_result.agent_name) \in failed
             THEN <<>>
             ELSE <<Agent_respond_to(agent, review_result)>>)
            \o CollectResponses(Tail(done), failed)

\* Response(agent_name=..., responding_to=..., session_id=self.session_id)
ResponseModel(result, sid) ==
    [agent_name |-> result.agent_name,
     responding_to |-> result.responding_to,
     session_id |-> sid]

\* for result in completed_responses: convert, save_response, append
RECURSIVE StoreResponses(_, _)
StoreResponses(o, results) ==
    IF results = <<>> THEN o
    ELSE LET response == ResponseModel(Head(results), o.session_id)
         IN IF SaveFails(o.storage,
                         SaveCall("response", response.agent_name,
                                  response.responding_to))
            THEN Raise(o, ErrStorage)
            ELSE StoreResponses(
                [o EXCEPT !.storage = save_response(@, response, o.session_id),
                          !.responses = Append(@, response)],
                Tail(results))

\* the check left out
NoReviewsToRespondTo_Never(o) == o.reviews /= o.reviews

\* if not self.reviews (run_responses)
NoReviewsToRespondTo(o) == o.reviews = <<>>

\* if not self.session_id or not self.code
NoActiveSession(o) == o.session_id = NoSession \/ ~TruthyStr(o.code)

\* response_tasks, in submission order
ResponseTasksOf(o) ==
    ResponseTasks(o.agents, ReviewResultsDict(o.reviews, <<>>))

\* run_responses after its checks, up to the submission of the futures
run_responses_begin(o) == [o EXCEPT !.responses = <<>>]

\* run_responses from the as_completed loop on; `done` is the response
\* tasks in the order in which they completed
run_responses_join(o1, failed, done) ==
    LET calls == ResponseCalls(ResponseTasksOf(o1))
        completed_responses == SortResponses(CollectResponses(done, failed))
        o2 == [o1 EXCEPT !.calls = @ \o calls,
                         !.failed = @ \cup (failed \cap Range(calls))]
        o3 == StoreResponses(o2, completed_responses)
    IN IF o3.raised /= NoError THEN o3
       ELSE [o3 EXCEPT !.stages = @ \cup {"respond"}]

run_responses(o, failed, order) ==
    IF NoReviewsToRespondTo(o)
    THEN Raise(o, ErrNoReviewsRespond)
    ELSE IF NoActiveSession(o)
    THEN Raise(o, ErrNoSession)
    ELSE run_responses_join(run_responses_begin(o), failed,
                            Completed(ResponseTasksOf(o), order))

(* ---- Round 3: run_voting ---- *)

\* one future per agent, in panel order
VoteTasks(o) ==
    [i \in 1..Len(o.agents) |-> Task("vote", o.agents[i], "")]

\* the as_completed loop: completed_votes.append(result)
RECURSIVE CollectVotes(_, _, _)
CollectVotes(done, failed, decisions) ==
    IF done = <<>> THEN <<>>
    ELSE (IF Head(done) \in failed
          THEN <<>>
          ELSE <<Agent_vote(Head(done)[2], decisions[Head(done)[2]])>>)
         \o CollectVotes(Tail(done), failed, decisions)

\* result.decision, result.reasoning can be read
IsVoteResult(result) == {"agent_name", "decision"} \subseteq DOMAIN result

\* Vote(agent_name=..., decision=..., session_id=self.session_id)
VoteModel(result, sid) ==
    [agent_name |-> result.agent_name,
     decision |-> result.decision,
     session_id |-> sid]

\* the Votes saved in order and put at the front of self.votes
RECURSIVE StoreVotes_Prepend(_, _)
StoreVotes_Prepend(o, results) ==
    IF results = <<>> THEN o
    ELSE LET vote == VoteModel(Head(results), o.session_id)
         IN StoreVotes_Prepend(
                [o EXCEPT !.storage = save_vote(@, vote, o.session_id),
                          !.votes = <<vote>> \o @],
                Tail(results))

\* for result in completed_votes: convert, save_vote, self.votes.append
RECURSIVE StoreVotes(_, _)
StoreVotes(o, results) ==
    IF results = <<>> THEN o
    ELSE LET vote == VoteModel(Head(results), o.session_id)
         IN IF ~IsVoteResult(Head(results))
            THEN Raise(o, ErrInvalidResult)
            ELSE IF SaveFails(o.storage, SaveCall("vote", vote.agent_name, ""))
            THEN Raise(o, ErrStorage)
            ELSE StoreVotes(
                [o EXCEPT !.storage = save_vote(@, vote, o.session_id),
                          !.votes = Append(@, vote)],
                Tail(results))

\* the precondition of run_voting left out
NoReviewsToVoteOn_Never(o) == o.reviews /= o.reviews

\* if not self.reviews (run_voting)
NoReviewsToVoteOn(o) == o.reviews = <<>>

\* ResponseResult(agent_name=resp.agent_name, responding_to=..., ...)
ResponseResultOf(resp) ==
    [agent_name |-> resp.agent_name, responding_to |-> resp.responding_to]

\* the arguments of every self._agent_vote_task(agent, self.code,
\* review_results, response_results); response_results is None, here <<>>,
\* when self.responses is empty
VoteArguments(o) ==
    [code |-> o.code,
     review_results |->
        [i \in 1..Len(o.reviews) |-> ReviewResultOf(o.reviews[i])],
     response_results |->
        [i \in 1..Len(o.responses) |-> ResponseResultOf(o.responses[i])]]

\* run_voting emptying the Responses as well
run_voting_begin_ClearsResponses(o) ==
    [o EXCEPT !.votes = <<>>, !.responses = <<>>, !.given = VoteArguments(o)]

\* run_voting keeping the Votes of the execution before
run_voting_begin_NoReset(o) == [o EXCEPT !.given = VoteArguments(o)]

\* run_voting after its checks, up to the submission of the futures
run_voting_begin(o) ==
    [o EXCEPT !.votes = <<>>, !.given = VoteArguments(o)]

\* run_voting from the as_completed loop on; `done` is the futures in the
\* order in which they completed
run_voting_join(o1, decisions, failed, done) ==
    LET tasks == VoteTasks(o1)
        completed_votes == SortVotes(CollectVotes(done, failed, decisions))
        o2 == [o1 EXCEPT !.calls = @ \o tasks,
                         !.failed = @ \cup (failed \cap Range(tasks))]
        o3 == StoreVotes(o2, completed_votes)
    IN IF o3.raised /= NoError THEN o3
       ELSE [o3 EXCEPT !.stages = @ \cup {"vote"}]

run_voting(o, decisions, failed, order) ==
    IF NoReviewsToVoteOn(o)
    THEN Raise(o, ErrNoReviewsVote)
    ELSE IF NoActiveSession(o)
    THEN Raise(o, ErrNoSession)
    ELSE run_voting_join(run_voting_begin(o), decisions, failed,
                         Completed(VoteTasks(o), order))

(* ---- build_consensus ---- *)

\* the abstentions not counted
RECURSIVE CountVotes_NoAbstain(_, _)
CountVotes_NoAbstain(vs, vote_counts) ==
    IF vs = <<>> THEN vote_counts
    ELSE LET decision_str == Head(vs).decision
         IN CountVotes_NoAbstain(Tail(vs),
                IF decision_str \in {"APPROVE", "REJECT"}
                THEN [vote_counts EXCEPT ![decision_str] = @ + 1]
                ELSE vote_counts)

\* only the first Vote counted
CountVotes_FirstOnly(vs, vote_counts) ==
    IF vs = <<>> THEN vote_counts
    ELSE [vote_counts EXCEPT ![Head(vs).decision] = @ + 1]

\* vote_counts = {"APPROVE": 0, "REJECT": 0, "ABSTAIN": 0}; for vote in
\* self.votes: if decision_str in vote_counts: vote_counts[decision_str] += 1
RECURSIVE CountVotes(_, _)
CountVotes(vs, vote_counts) ==
    IF vs = <<>> THEN vote_counts
    ELSE LET decision_str == Head(vs).decision
         IN CountVotes(Tail(vs),
                IF decision_str \in DOMAIN vote_counts
                THEN [vote_counts EXCEPT ![decision_str] = @ + 1]
                ELSE vote_counts)

\* no side taken when nobody approves or rejects
FinalDecision_AbstainWhenNoSide(approve_count, reject_count) ==
    IF approve_count > reject_count THEN "APPROVE"
    ELSE IF reject_count > approve_count THEN "REJECT"
    ELSE IF approve_count = 0 THEN "ABSTAIN"
    ELSE "REJECT"

\* a tie left undecided
FinalDecision_AbstainOnTie(approve_count, reject_count) ==
    IF approve_count > reject_count THEN "APPROVE"
    ELSE IF reject_count > approve_count THEN "REJECT"
    ELSE "ABSTAIN"

\* a tie approved instead of rejected
FinalDecision_TieApproves(approve_count, reject_count) ==
    IF approve_count >= reject_count THEN "APPROVE" ELSE "REJECT"

\* the tie-breaking if/elif/else
FinalDecision(approve_count, reject_count) ==
    IF approve_count > reject_count THEN "APPROVE"
    ELSE IF reject_count > approve_count THEN "REJECT"
    ELSE "REJECT"

\* for review in self.reviews: for x in review.<field>: the items scanned
RECURSIVE AllIssuesIn(_)
AllIssuesIn(rs) ==
    IF rs = <<>> THEN <<>> ELSE Head(rs).issues \o AllIssuesIn(Tail(rs))

RECURSIVE AllSuggestionsIn(_)
AllSuggestionsIn(rs) ==
    IF rs = <<>> THEN <<>> ELSE Head(rs).suggestions \o AllSuggestionsIn(Tail(rs))

\* every mention kept, seen before or not
RECURSIVE ScanIssues_NoDedup(_, _, _)
ScanIssues_NoDedup(items, issue_mentions, all_issues) ==
    IF items = <<>>
    THEN [issue_mentions |-> issue_mentions, all_issues |-> all_issues]
    ELSE LET issue == Head(items)
             desc_lower == Normalize(issue.description)
         IN ScanIssues_NoDedup(Tail(items),
                DictSet(issue_mentions, desc_lower,
                        DictGet(issue_mentions, desc_lower, 0) + 1),
                Append(all_issues, issue))

\* an issue not seen before put at the front of all_issues
RECURSIVE ScanIssues_NewestFirst(_, _, _)
ScanIssues_NewestFirst(items, issue_mentions, all_issues) ==
    IF items = <<>>
    THEN [issue_mentions |-> issue_mentions, all_issues |-> all_issues]
    ELSE LET issue == Head(items)
             desc_lower == Normalize(issue.description)
             seen == {Normalize(all_issues[i].description) :
                         i \in 1..Len(all_issues)}
         IN ScanIssues_NewestFirst(Tail(items),
                DictSet(issue_mentions, desc_lower,
                        DictGet(issue_mentions, desc_lower, 0) + 1),
                IF desc_lower \notin seen
                THEN <<issue>> \o all_issues ELSE all_issues)

\* issue_mentions[desc_lower] += 1; all_issues.append(issue) if unseen
RECURSIVE ScanIssues(_, _, _)
ScanIssues(items, issue_mentions, all_issues) ==
    IF items = <<>>
    THEN [issue_mentions |-> issue_mentions, all_issues |-> all_issues]
    ELSE LET issue == Head(items)
             desc_lower == Normalize(issue.description)
             seen == {Normalize(all_issues[i].description) :
                         i \in 1..Len(all_issues)}
         IN ScanIssues(Tail(items),
                DictSet(issue_mentions, desc_lower,
                        DictGet(issue_mentions, desc_lower, 0) + 1),
                IF desc_lower \notin seen
                THEN Append(all_issues, issue) ELSE all_issues)

\* the severity left out of the rule
IsKeyIssue_CountOnly(issue, issue_mentions) ==
    DictGet(issue_mentions, Normalize(issue.description), 0) >= 2

\* issue_mentions.get(desc_lower, 0) >= 2 or severity in ("CRITICAL", "HIGH")
IsKeyIssue(issue, issue_mentions) ==
    \/ DictGet(issue_mentions, Normalize(issue.description), 0) >= 2
    \/ issue.severity \in {"CRITICAL", "HIGH"}

KeyIssues(rs) ==
    LET scan == ScanIssues(AllIssuesIn(rs), <<>>, <<>>)
    IN SelectSeq(scan.all_issues,
                 LAMBDA issue : IsKeyIssue(issue, scan.issue_mentions))

\* suggestion_mentions[sug_lower] += 1; all_suggestions.append if unseen
RECURSIVE ScanSuggestions(_, _, _)
ScanSuggestions(items, suggestion_mentions, all_suggestions) ==
    IF items = <<>>
    THEN [suggestion_mentions |-> suggestion_mentions,
          all_suggestions |-> all_suggestions]
    ELSE LET suggestion == Head(items)
             sug_lower == Normalize(suggestion)
             seen == {Normalize(all_suggestions[i]) :
                         i \in 1..Len(all_suggestions)}
         IN ScanSuggestions(Tail(items),
                DictSet(suggestion_mentions, sug_lower,
                        DictGet(suggestion_mentions, sug_lower, 0) + 1),
                IF sug_lower \notin seen
                THEN Append(all_suggestions, suggestion) ELSE all_suggestions)

\* suggestion_mentions.get(s.lower().strip(), 0) >= 2
IsAcceptedSuggestion(s, suggestion_mentions) ==
    DictGet(suggestion_mentions, Normalize(s), 0) >= 2

AcceptedSuggestions(rs) ==
    LET scan == ScanSuggestions(AllSuggestionsIn(rs), <<>>, <<>>)
    IN SelectSeq(scan.all_suggestions,
                 LAMBDA s : IsAcceptedSuggestion(s, scan.suggestion_mentions))

\* the check left out
NoVotes_Never(o) == o.votes /= o.votes

\* if not self.votes
NoVotes(o) == o.votes = <<>>

\* the Consensus saved, but not kept in self.consensus
build_consensus_NotKept(o) ==
    IF NoVotes(o)
    THEN Raise(o, ErrNoVotes)
    ELSE IF NoActiveSession(o)
    THEN Raise(o, ErrNoSession)
    ELSE LET vote_counts ==
                 CountVotes(o.votes, [d \in VoteDecision |-> 0])
             c == [final_decision |->
                       FinalDecision(vote_counts["APPROVE"], vote_counts["REJECT"]),
                   vote_counts |-> vote_counts,
                   key_issues |-> KeyIssues(o.reviews),
                   accepted_suggestions |-> AcceptedSuggestions(o.reviews),
                   session_id |-> o.session_id,
                   code_snippet |-> o.code,
                   context |-> o.context]
         IN IF SaveFails(o.storage, SaveCall("consensus", "", ""))
            THEN Raise([o EXCEPT !.consensus = <<c>>], ErrStorage)
            ELSE [o EXCEPT !.storage = save_consensus(@, c),
                           !.stages = @ \cup {"consensus"}]

build_consensus(o) ==
    IF NoVotes(o)
    THEN Raise(o, ErrNoVotes)
    ELSE IF NoActiveSession(o)
    THEN Raise(o, ErrNoSession)
    ELSE LET vote_counts ==
                 CountVotes(o.votes, [d \in VoteDecision |-> 0])
             c == [final_decision |->
                       FinalDecision(vote_counts["APPROVE"], vote_counts["REJECT"]),
                   vote_counts |-> vote_counts,
                   key_issues |-> KeyIssues(o.reviews),
                   accepted_suggestions |-> AcceptedSuggestions(o.reviews),
                   session_id |-> o.session_id,
                   code_snippet |-> o.code,
                   context |-> o.context]
         IN IF SaveFails(o.storage, SaveCall("consensus", "", ""))
            THEN Raise([o EXCEPT !.consensus = <<c>>], ErrStorage)
            ELSE [o EXCEPT !.consensus = <<c>>,
                           !.storage = save_consensus(@, c),
                           !.stages = @ \cup {"consensus"}]

(* ---- run_full_debate ---- *)

\* a Consensus built only from the votes of the whole panel
run_full_debate_NeedsFullPanel(o, c, ctx, findings, decisions, failed, order) ==
    LET s1 == start_review(o, c, ctx, findings, failed, order)
    IN IF s1.raised /= NoError THEN s1
       ELSE LET s2 == run_responses(s1, failed, order)
            IN IF s2.raised /= NoError THEN s2
               ELSE LET s3 == run_voting(s2, decisions, failed, order)
                    IN IF s3.raised /= NoError THEN s3
                       ELSE IF Len(s3.votes) < Len(s3.agents)
                       THEN Raise(s3, ErrNoVotes)
                       ELSE build_consensus(s3)

\* the four stages in sequence; an error raised by a stage ends the debate
run_full_debate(o, c, ctx, findings, decisions, failed, order) ==
    LET s1 == start_review(o, c, ctx, findings, failed, order)
    IN IF s1.raised /= NoError THEN s1
       ELSE LET s2 == run_responses(s1, failed, order)
            IN IF s2.raised /= NoError THEN s2
               ELSE LET s3 == run_voting(s2, decisions, failed, order)
                    IN IF s3.raised /= NoError THEN s3
                       ELSE build_consensus(s3)

----------------------------------------------------------------------------
(* The environment: the inputs of the handlers *)

\* the code text given to start_review: empty, or not
Codes == {"", "def f(): pass"}
Contexts == {NoneStr}

\* the personas argument of the constructor: None/empty, or a team
PanelChoices ==
    {<<>>} \cup {SubSeq(PERSONAS, 1, n) : n \in 1..Len(PERSONAS)}

\* the decision each reviewer casts when its vote call succeeds, in the
\* debates of Spec
AgentDecisions ==
    [a \in Range(PERSONAS) |->
        CASE a = "SecurityExpert" -> "REJECT"
          [] a = "PerformanceEngineer" -> "APPROVE"
          [] a = "ArchitectureCritic" -> "APPROVE"
          [] a = "PragmaticDev" -> "ABSTAIN"]

\* the subsets of S with at most k elements
RECURSIVE KSubsets(_, _)
KSubsets(S, k) ==
    IF k = 0 THEN {{}}
    ELSE LET P == KSubsets(S, k - 1)
         IN P \cup {p \cup {x} : p \in P, x \in S}

\* the calls that fail in a round that dispatches `calls`, with `budget`
\* fault events left: at most `budget` of them, or all of them
FailChoices(calls, budget) ==
    KSubsets(calls, budget) \cup (IF budget >= 1 THEN {calls} ELSE {})

FaultCost(failed, calls) ==
    IF failed = {} THEN 0
    ELSE IF failed = calls THEN 1
    ELSE Cardinality(failed)

----------------------------------------------------------------------------
(* The state machine *)

Self ==
    [agents |-> agents, session_id |-> session_id, code |-> code,
     context |-> context, reviews |-> reviews, responses |-> responses,
     votes |-> votes, consensus |-> consensus, storage |-> storage,
     stages |-> stages, raised |-> NoError, calls |-> <<>>, failed |-> {},
     personas |-> <<>>, given |-> NoArguments]

\* no round in progress, none run
NoRound ==
    [pc |-> "idle", op |-> "none", calls |-> <<>>, pending |-> {},
     done |-> <<>>, failed |-> {}, workers |-> 0]

\* the variables after handler `op` has turned the object into `o`
Commit(op, o, cost) ==
    /\ agents' = o.agents
    /\ session_id' = o.session_id
    /\ code' = o.code
    /\ context' = o.context
    /\ reviews' = o.reviews
    /\ responses' = o.responses
    /\ votes' = o.votes
    /\ consensus' = o.consensus
    /\ storage' = o.storage
    /\ outcome' = [op |-> op, raised |-> o.raised, calls |-> o.calls,
                   failed |-> o.failed, personas |-> o.personas,
                   given |-> o.given]
    /\ faults' = faults + cost
    /\ nops' = nops + 1
    /\ stages' = o.stages
    /\ round' = round

\* the state in which handler `op` has left the object `o`
StateIs(op, o, f, n) ==
    /\ agents = o.agents
    /\ session_id = o.session_id
    /\ code = o.code
    /\ context = o.context
    /\ reviews = o.reviews
    /\ responses = o.responses
    /\ votes = o.votes
    /\ consensus = o.consensus
    /\ storage = o.storage
    /\ outcome = [op |-> op, raised |-> o.raised, calls |-> o.calls,
                  failed |-> o.failed, personas |-> o.personas,
                   given |-> o.given]
    /\ faults = f
    /\ nops = n
    /\ stages = o.stages
    /\ round = NoRound

\* a new orchestrator, with a new Storage, before any handler call
Constructed(personas) ==
    [agents |-> init(personas).agents,
     session_id |-> init(personas).session_id,
     code |-> init(personas).code,
     context |-> init(personas).context,
     reviews |-> init(personas).reviews,
     responses |-> init(personas).responses,
     votes |-> init(personas).votes,
     consensus |-> init(personas).consensus,
     storage |-> EmptyStorage,
     stages |-> {},
     raised |-> NoError, calls |-> <<>>, failed |-> {},
     personas |-> personas, given |-> NoArguments]

Init == \E personas \in PanelChoices : StateIs("__init__", Constructed(personas), 0, 0)

\* the calls a handler dispatches do not depend on which of them fail
CallsOf(o) == Range(o.calls)

StartReview ==
    /\ nops < MaxOps
    /\ \E c \in Codes, ctx \in Contexts, order \in CompletionOrders :
         LET calls == CallsOf(start_review(Self, c, ctx, AgentFindings, {}, order))
         IN \E failed \in FailChoices(calls, MaxFaults - faults) :
              Commit("start_review",
                     start_review(Self, c, ctx, AgentFindings, failed, order),
                     FaultCost(failed, calls))

RunResponses ==
    /\ nops < MaxOps
    /\ \E order \in CompletionOrders :
         LET calls == CallsOf(run_responses(Self, {}, order))
         IN \E failed \in FailChoices(calls, MaxFaults - faults) :
              Commit("run_responses", run_responses(Self, failed, order),
                     FaultCost(failed, calls))

RunVoting ==
    /\ nops < MaxOps
    /\ \E order \in CompletionOrders :
         LET calls == CallsOf(run_voting(Self, AgentDecisions, {}, order))
         IN \E failed \in FailChoices(calls, MaxFaults - faults) :
              Commit("run_voting",
                     run_voting(Self, AgentDecisions, failed, order),
                     FaultCost(failed, calls))

BuildConsensus ==
    /\ nops < MaxOps
    /\ Commit("build_consensus", build_consensus(Self), 0)

\* the calls of the three rounds have different kinds, so one set of failing
\* calls serves the whole debate; it is chosen round by round
RunFullDebate ==
    /\ nops < MaxOps
    /\ \E c \in Codes, ctx \in Contexts, order \in CompletionOrders :
         LET decisions == AgentDecisions
             run(failed) ==
                 run_full_debate(Self, c, ctx, AgentFindings, decisions,
                                 failed, order)
             calls1 == CallsOf(start_review(Self, c, ctx, AgentFindings, {}, order))
         IN \E f1 \in FailChoices(calls1, MaxFaults - faults) :
              LET b2 == MaxFaults - faults - FaultCost(f1, calls1)
                  s1 == start_review(Self, c, ctx, AgentFindings, f1, order)
                  calls2 == CallsOf(run_responses(s1, {}, order)) \ calls1
              IN \E f2 \in FailChoices(calls2, b2) :
                   LET b3 == b2 - FaultCost(f2, calls2)
                       s2 == run_responses(s1, f2, order)
                       calls3 == CallsOf(run_voting(s2, decisions, {}, order))
                                    \ (calls1 \cup calls2)
                   IN \E f3 \in FailChoices(calls3, b3) :
                        Commit("run_full_debate", run(f1 \cup f2 \cup f3),
                               FaultCost(f1, calls1) + FaultCost(f2, calls2)
                                   + FaultCost(f3, calls3))

Next ==
    \/ StartReview
    \/ RunResponses
    \/ RunVoting
    \/ BuildConsensus
    \/ RunFullDebate

Spec == Init /\ [][Next]_vars

----------------------------------------------------------------------------
(* The aggregation on its own: build_consensus applied to an orchestrator  *)
(* of the default panel that has run start_review and run_voting, for      *)
(* every bounded choice of what the reviewers found and voted.             *)

\* the items of `flat` that `slot` gives to the k-th author, in order
RECURSIVE Pick(_, _, _)
Pick(flat, slot, k) ==
    IF flat = <<>> THEN <<>>
    ELSE (IF Head(slot) = k THEN <<Head(flat)>> ELSE <<>>)
         \o Pick(Tail(flat), Tail(slot), k)

\* up to MaxMentions items of `Items`, dealt in order to `authors`
Deals(Items, authors) ==
    UNION {
        {<<flat, slot>> :
            flat \in [1..n -> Items],
            slot \in {sl \in [1..n -> 1..Len(authors)] :
                        \A i \in 1..n, j \in 1..n : i < j => sl[i] <= sl[j]}}
        : n \in 0..MaxMentions}

AuthorIndex(authors, a) ==
    IF a \in Range(authors)
    THEN CHOOSE k \in 1..Len(authors) : authors[k] = a
    ELSE 0

IssueAuthors == <<"SecurityExpert", "PerformanceEngineer">>

IssueFindings ==
    {[a \in Range(PERSONAS) |->
        [issues |-> Pick(d[1], d[2], AuthorIndex(IssueAuthors, a)),
         suggestions |-> <<>>]]
     : d \in Deals(IssueRecords, IssueAuthors)}

SuggestionFindings ==
    {[a \in Range(PERSONAS) |->
        [issues |-> <<>>,
         suggestions |-> Pick(d[1], d[2], AuthorIndex(PERSONAS, a))]]
     : d \in Deals(Texts, PERSONAS)}

\* the orders in which n items can be held
Orders(n) ==
    {p \in [1..n -> 1..n] : \A i, j \in 1..n : p[i] = p[j] => i = j}

\* the four findings of AgentFindings, made by the panel in any order
ShuffledFindings ==
    {[a \in Range(PERSONAS) |->
        AgentFindings[PERSONAS[p[AuthorIndex(PERSONAS, a)]]]]
     : p \in Orders(Len(PERSONAS))}

\* the orchestrator after start_review (no call failing) and run_voting
Voted(findings, decisions, failed) ==
    LET o1 == start_review(Constructed(<<>>), "def f(): pass", NoneStr,
                           findings, {}, "submitted")
    IN run_voting([o1 EXCEPT !.calls = <<>>], decisions, failed, "reversed")

AggInitOf(findings, decisions, failed) ==
    StateIs("run_voting", Voted(findings, decisions, failed),
            FaultCost(failed, Range(VoteTasks(Constructed(<<>>)))),
            MaxOps - 1)

AggInit ==
    \/ \E decisions \in [Range(PERSONAS) -> VoteDecision],
          failed \in SUBSET Range(VoteTasks(Constructed(<<>>))) :
         AggInitOf(AgentFindings, decisions, failed)
    \/ \E findings \in IssueFindings :
         AggInitOf(findings, AgentDecisions, {})
    \/ \E findings \in SuggestionFindings :
         AggInitOf(findings, AgentDecisions, {})
    \/ \E findings \in ShuffledFindings :
         AggInitOf(findings, AgentDecisions, {})

AggNext == BuildConsensus

SpecAgg == AggInit /\ [][AggNext]_vars

----------------------------------------------------------------------------
(* The debates on a Storage one of whose save calls raises; no reviewer    *)
(* call fails in them.                                                     *)

StoreFaults ==
    {SaveCall("review", "PerformanceEngineer", ""),
     SaveCall("response", "PerformanceEngineer", "SecurityExpert"),
     SaveCall("vote", "PerformanceEngineer", ""),
     SaveCall("consensus", "", "")}

StoreInit ==
    \E personas \in PanelChoices, f \in StoreFaults :
        StateIs("__init__",
                [Constructed(personas) EXCEPT !.storage.failing = {f}],
                MaxFaults, 0)

SpecStore == StoreInit /\ [][Next]_vars

----------------------------------------------------------------------------
(* The debates of an orchestrator that has already run one full debate,    *)
(* in which no call failed.                                                *)

ReuseInit ==
    \E personas \in PanelChoices :
        /\ Len(personas) \in 1..3
        /\ StateIs("run_full_debate",
                   run_full_debate(Constructed(personas), "def f(): pass",
                                   NoneStr, AgentFindings, AgentDecisions,
                                   {}, "submitted"),
                   0, 0)

SpecReuse == ReuseInit /\ [][Next]_vars

----------------------------------------------------------------------------
(* The debates in which the answer of one reviewer is malformed: its call  *)
(* returns, with a result that lacks required fields.  No call raises and  *)
(* the Storage works.                                                      *)

\* nobody, or one reviewer, gives a malformed answer
MalformedChoices == {{}} \cup {{a} : a \in Range(PERSONAS)}

FindingsWith(bad) ==
    [a \in Range(PERSONAS) |->
        IF a \in bad THEN Malformed ELSE AgentFindings[a]]

DecisionsWith(bad) ==
    [a \in Range(PERSONAS) |->
        IF a \in bad THEN MalformedDecision ELSE AgentDecisions[a]]

StartReviewMalformed ==
    /\ nops < MaxOps
    /\ \E c \in Codes, ctx \in Contexts, bad \in MalformedChoices :
         Commit("start_review",
                start_review(Self, c, ctx, FindingsWith(bad), {}, "reversed"),
                0)

RunVotingMalformed ==
    /\ nops < MaxOps
    /\ \E bad \in MalformedChoices :
         Commit("run_voting",
                run_voting(Self, DecisionsWith(bad), {}, "reversed"), 0)

RunFullDebateMalformed ==
    /\ nops < MaxOps
    /\ \E c \in Codes, ctx \in Contexts, bad \in MalformedChoices,
          round3 \in BOOLEAN :
         Commit("run_full_debate",
                run_full_debate(Self, c, ctx,
                    IF round3 THEN AgentFindings ELSE FindingsWith(bad),
                    IF round3 THEN DecisionsWith(bad) ELSE AgentDecisions,
                    {}, "reversed"),
                0)

MalformedNext ==
    \/ StartReviewMalformed
    \/ RunVotingMalformed
    \/ RunFullDebateMalformed

SpecMalformed == Init /\ [][MalformedNext]_vars

----------------------------------------------------------------------------
(* One round, step by step: the handler submits its calls to the thread    *)
(* pool, the calls complete one at a time in any order, each returning or  *)
(* raising, and when the pool has been joined the handler sorts, converts, *)
(* saves and returns.  round.calls are the futures in submission order,    *)
(* round.pending and round.done refer to them by position.                 *)

MaxRoundCalls == 6

\* the orchestrator fields of `o` become the state; the rest is given
Advance(o, out, f, n, r) ==
    /\ agents' = o.agents
    /\ session_id' = o.session_id
    /\ code' = o.code
    /\ context' = o.context
    /\ reviews' = o.reviews
    /\ responses' = o.responses
    /\ votes' = o.votes
    /\ consensus' = o.consensus
    /\ storage' = o.storage
    /\ stages' = o.stages
    /\ outcome' = out
    /\ faults' = f
    /\ nops' = n
    /\ round' = r

\* ThreadPoolExecutor(max_workers=len(self.agents)) in each of the rounds
max_workers == Len(agents)

\* executor.submit(...) for every task
Submitted(op, calls) ==
    [pc |-> "running", op |-> op, calls |-> calls,
     pending |-> 1..Len(calls), done |-> <<>>, failed |-> {},
     workers |-> max_workers]

\* a pool that never starts the calls queued behind its first workers
Started_NoneQueued(r) == {i \in r.pending : i <= r.workers}

\* the futures a worker has taken up and that have not completed: the pool
\* starts its work items in submission order, one per free worker
Started(r) == {i \in r.pending : i <= Len(r.done) + r.workers}

\* the handler runs its checks and its resets and submits its calls
Dispatch ==
    /\ round = NoRound
    /\ nops < MaxOps
    /\ \/ \E c \in Codes \ {""}, ctx \in Contexts :
             LET o1 == start_review_begin(Self, c, ctx)
             IN Advance(o1, outcome, faults, nops,
                        Submitted("start_review", ReviewTasks(o1)))
       \/ /\ ~NoReviewsToRespondTo(Self)
          /\ ~NoActiveSession(Self)
          /\ Len(ResponseTasksOf(Self)) <= MaxRoundCalls
          /\ Advance(run_responses_begin(Self), outcome, faults, nops,
                     Submitted("run_responses",
                               ResponseCalls(ResponseTasksOf(Self))))
       \/ /\ ~NoReviewsToVoteOn(Self)
          /\ ~NoActiveSession(Self)
          /\ Advance(run_voting_begin(Self), outcome, faults, nops,
                     Submitted("run_voting", VoteTasks(Self)))

\* a call that raises is submitted again
Settle_Retry ==
    /\ round.pc = "running"
    /\ \E i \in round.pending, ok \in BOOLEAN :
         /\ ~ok => faults < MaxFaults
         /\ Advance(Self, outcome, IF ok THEN faults ELSE faults + 1, nops,
                    [round EXCEPT !.pending = IF ok THEN @ \ {i} ELSE @,
                                  !.done = Append(@, i),
                                  !.failed = @ \cup (IF ok THEN {}
                                                     ELSE {round.calls[i]})])

\* a future completes: its call has returned, or it has raised
Settle ==
    /\ round.pc = "running"
    /\ \E i \in Started(round), ok \in BOOLEAN :
         /\ ~ok => faults < MaxFaults
         /\ Advance(Self, outcome, IF ok THEN faults ELSE faults + 1, nops,
                    [round EXCEPT !.pending = @ \ {i},
                                  !.done = Append(@, i),
                                  !.failed = @ \cup (IF ok THEN {}
                                                     ELSE {round.calls[i]})])

\* the handler goes on as soon as one future has completed
AllSettled_FirstCompleted(r) == r.done /= <<>>

\* as_completed(...) is exhausted and the with-block of the pool is left
AllSettled(r) == r.pending = {}

\* the tasks in the order in which they completed
InCompletionOrder(tasks, done) == [k \in 1..Len(done) |-> tasks[done[k]]]

\* the handler after the as_completed loop
Joined(op, o, failed, done) ==
    CASE op = "start_review" ->
           start_review_join(o, AgentFindings, failed,
                             InCompletionOrder(ReviewTasks(o), done))
      [] op = "run_responses" ->
           run_responses_join(o, failed,
                              InCompletionOrder(ResponseTasksOf(o), done))
      [] op = "run_voting" ->
           run_voting_join(o, AgentDecisions, failed,
                           InCompletionOrder(VoteTasks(o), done))

\* the pool is joined; the handler stores the results and returns
Join ==
    /\ round.pc = "running"
    /\ AllSettled(round)
    /\ LET o == Joined(round.op, Self, round.failed, round.done)
       IN Advance(o,
                  [op |-> round.op, raised |-> o.raised, calls |-> o.calls,
                   failed |-> o.failed, personas |-> o.personas,
                   given |-> IF round.op = "run_voting"
                             THEN VoteArguments(Self) ELSE NoArguments],
                  faults, nops + 1, [round EXCEPT !.pc = "idle"])

\* a new orchestrator, or one that has run Round 1
RoundInit ==
    \E personas \in PanelChoices \ {<<>>} :
        \/ StateIs("__init__", Constructed(personas), 0, 0)
        \/ StateIs("start_review",
                   start_review(Constructed(personas), "def f(): pass",
                                NoneStr, AgentFindings, {}, "submitted"),
                   0, 0)

RoundNext == Dispatch \/ Settle \/ Join

SpecRound == RoundInit /\ [][RoundNext]_vars

----------------------------------------------------------------------------
(* run_full_debate, step by step: the four stages one after the other,     *)
(* each round as in SpecRound.  round.op is the stage the debate is in;    *)
(* it is "run_full_debate" once the debate has returned or raised.         *)

\* the call of the stage before has returned
StageOver_AtOnce(r) == TRUE

StageOver(r) == r.pc = "idle"

\* run_full_debate returns, or the error of one of its stages leaves it
DebateEnds(o) ==
    Advance(o,
            [op |-> "run_full_debate", raised |-> o.raised,
             calls |-> outcome.calls \o o.calls,
             failed |-> outcome.failed \cup o.failed,
             personas |-> o.personas, given |-> o.given],
            faults, nops, [round EXCEPT !.op = "run_full_debate"])

\* self.start_review(code, context), up to the submission of its calls
DebateReview ==
    /\ round.op = "none"
    /\ \E c \in Codes, ctx \in Contexts :
         LET o1 == start_review_begin(Self, c, ctx)
         IN Advance(o1, outcome, faults, nops,
                    Submitted("start_review", ReviewTasks(o1)))

\* self.run_responses(): its checks, and the submission of its calls
DebateRespond ==
    /\ round.op = "start_review"
    /\ IF run_responses(Self, {}, "submitted").raised /= NoError
       THEN DebateEnds(run_responses(Self, {}, "submitted"))
       ELSE Advance(run_responses_begin(Self), outcome, faults, nops,
                    Submitted("run_responses",
                              ResponseCalls(ResponseTasksOf(Self))))

\* self.run_voting(): its checks, and the submission of its calls
DebateVote ==
    /\ round.op = "run_responses"
    /\ IF run_voting(Self, AgentDecisions, {}, "submitted").raised /= NoError
       THEN DebateEnds(run_voting(Self, AgentDecisions, {}, "submitted"))
       ELSE Advance(run_voting_begin(Self), outcome, faults, nops,
                    Submitted("run_voting", VoteTasks(Self)))

\* return self.build_consensus()
DebateConsensus ==
    /\ round.op = "run_voting"
    /\ DebateEnds(build_consensus(Self))

\* the next statement of run_full_debate
Proceed ==
    /\ StageOver(round)
    /\ outcome.raised = NoError
    /\ \/ DebateReview
       \/ DebateRespond
       \/ DebateVote
       \/ DebateConsensus

DebateInit ==
    \E personas \in PanelChoices :
        /\ Len(personas) \in 1..3
        /\ StateIs("__init__", Constructed(personas), 0, 0)

DebateNext == Proceed \/ Settle \/ Join

SpecDebate == DebateInit /\ [][DebateNext]_vars

\* the pool can be joined: every future has completed
CanJoin == round.pc = "running" /\ AllSettled(round)

\* run_full_debate has a next statement to run
CanProceed ==
    /\ StageOver(round)
    /\ outcome.raised = NoError
    /\ round.op \in {"none", "start_review", "run_responses", "run_voting"}

\* every reviewer call a worker runs settles (weak fairness of Settle), and
\* the thread of the handler is scheduled and its Storage calls return
\* (weak fairness of Join and of Proceed, with their enabling conditions
\* written out): no step that stays possible is put off forever
DebateFairness ==
    /\ WF_vars(Settle)
    /\ []<>(~CanJoin) \/ []<><<Join>>_vars
    /\ []<>(~CanProceed) \/ []<><<Proceed>>_vars

SpecDebateLive == SpecDebate /\ DebateFairness

----------------------------------------------------------------------------
(* The `review` command of the CLI, run on one Storage: the standard path  *)
(* builds an orchestrator and runs a full debate; the --stream path asks   *)
(* the reviewers one after the other and builds its Consensus itself.      *)

\* all_issues[:10], list(all_suggestions)[:10]
StreamLimit == 10

\* s[:n]
Take(s, n) == SubSeq(s, 1, IF Len(s) < n THEN Len(s) ELSE n)

\* result.severity of the ReviewResult of each reviewer
AgentSeverity ==
    [a \in Range(PERSONAS) |->
        CASE a = "SecurityExpert" -> "CRITICAL"
          [] a = "PerformanceEngineer" -> "LOW"
          [] a = "ArchitectureCritic" -> "MEDIUM"
          [] a = "PragmaticDev" -> "LOW"]

\* get_team_personas(): the team the command works with
TeamChoices == PanelChoices \ {<<>>}

\* list(S): the elements of a Python set, in whatever order it iterates
ListsOf(S) ==
    {l \in [1..Cardinality(S) -> S] :
        \A i, j \in 1..Cardinality(S) : l[i] = l[j] => i = j}

\* for persona in team_personas: try: review_streaming, Review(...),
\* all_reviews.append, save_review; except: print
RECURSIVE StreamReviews(_, _, _)
StreamReviews(o, team, failed) ==
    IF team = <<>> THEN o
    ELSE LET a == Head(team)
             review == ReviewModel(Agent_review(a, AgentFindings), o.session_id)
         IN IF Task("review", a, "") \in failed
            THEN StreamReviews(o, Tail(team), failed)
            ELSE StreamReviews(
                    [o EXCEPT !.reviews = Append(@, review),
                              !.storage = save_review(@, review, o.session_id)],
                    Tail(team), failed)

\* has_critical = any(r.severity == "CRITICAL" for r in all_reviews)
has_critical(all_reviews) ==
    \E i \in 1..Len(all_reviews) :
        AgentSeverity[all_reviews[i].agent_name] = "CRITICAL"

\* the Consensus of the --stream path, all_suggestions listed as `listed`
StreamConsensus(o, listed) ==
    LET n == Len(o.reviews)
        all_issues == AllIssuesIn(o.reviews)
    IN [final_decision |->
            IF has_critical(o.reviews) THEN "REJECT" ELSE "APPROVE",
        vote_counts |->
            [APPROVE |-> IF has_critical(o.reviews) THEN 0 ELSE n,
             REJECT |-> IF has_critical(o.reviews) THEN n ELSE 0,
             ABSTAIN |-> 0],
        key_issues |->
            [i \in 1..Len(Take(all_issues, StreamLimit)) |->
                all_issues[i].description],
        accepted_suggestions |-> Take(listed, StreamLimit),
        session_id |-> o.session_id,
        code_snippet |-> o.code,
        context |-> o.context]

\* the --stream path up to its Consensus: the session, then the reviewers
\* in turn
stream_reviews(st, team, c, ctx, failed) ==
    LET o0 == [Constructed(team) EXCEPT
                  !.agents = team,
                  !.storage = create_session(st, c, ctx),
                  !.session_id = NewSessionId(st),
                  !.code = c,
                  !.context = ctx,
                  !.calls = [i \in 1..Len(team) |-> Task("review", team[i], "")],
                  !.failed = failed]
    IN StreamReviews(o0, team, failed)

\* the --stream path: the Consensus is built from the Reviews and saved
review_stream(st, team, c, ctx, failed, listed) ==
    LET o1 == stream_reviews(st, team, c, ctx, failed)
        consensus_result == StreamConsensus(o1, listed)
    IN [o1 EXCEPT !.consensus = <<consensus_result>>,
                  !.storage = save_consensus(@, consensus_result)]

\* the standard path: DebateOrchestrator(personas=team).run_full_debate
review_standard(st, team, c, ctx, failed, order) ==
    run_full_debate([Constructed(team) EXCEPT !.storage = st], c, ctx,
                    AgentFindings, AgentDecisions, failed, order)

\* consensus review FILE
CliReview ==
    /\ nops < MaxOps
    /\ \E team \in TeamChoices, c \in Codes, ctx \in Contexts,
          order \in CompletionOrders :
         LET calls == CallsOf(review_standard(storage, team, c, ctx, {}, order))
         IN \E failed \in FailChoices(calls, MaxFaults - faults) :
              Commit("review",
                     review_standard(storage, team, c, ctx, failed, order),
                     FaultCost(failed, calls))

\* consensus review FILE --stream
CliReviewStream ==
    /\ nops < MaxOps
    /\ \E team \in TeamChoices, c \in Codes, ctx \in Contexts :
         LET calls == CallsOf(stream_reviews(storage, team, c, ctx, {}))
         IN \E failed \in FailChoices(calls, MaxFaults - faults) :
              LET o1 == stream_reviews(storage, team, c, ctx, failed)
              IN \E listed \in ListsOf(Range(AllSuggestionsIn(o1.reviews))) :
                   Commit("review --stream",
                          review_stream(storage, team, c, ctx, failed, listed),
                          FaultCost(failed, calls))

\* no command has run yet: the Storage is empty
CliInit ==
    StateIs("none", [Constructed(<<>>) EXCEPT !.agents = <<>>], 0, 0)

CliNext == CliReview \/ CliReviewStream

SpecCli == CliInit /\ [][CliNext]_vars

----------------------------------------------------------------------------
(* Properties *)

LastOp == outcome.op
Returned == outcome.raised = NoError
Built == LastOp = "build_consensus" /\ Returned
TheConsensus == consensus[1]

CallsOfKind(kind) == {t \in Range(outcome.calls) : t[1] = kind}
FailedOfKind(kind) == {t \in outcome.failed : t[1] = kind}

\* the last handler call ran Round 2 (resp. Round 3) to its end
RanResponses ==
    \/ LastOp = "run_responses" /\ Returned
    \/ LastOp = "run_full_debate" /\ outcome.raised \in {NoError, ErrNoVotes}
RanVoting ==
    \/ LastOp = "run_voting" /\ Returned
    \/ LastOp = "run_full_debate" /\ outcome.raised \in {NoError, ErrNoVotes}

NumVotes(d) == Cardinality({i \in 1..Len(votes) : votes[i].decision = d})

\* C1: for every non-empty Vote set the final decision is APPROVE exactly
\* when there are strictly more APPROVE than REJECT votes and REJECT
\* otherwise, ties included; the ABSTAIN votes play no part.
C1_DecisionIsStrictMajority ==
    Built =>
        /\ votes /= <<>>
        /\ TheConsensus.final_decision =
              IF NumVotes("APPROVE") > NumVotes("REJECT")
              THEN "APPROVE" ELSE "REJECT"

\* the 2/2 tie of the four-reviewer scenario is rejected
C1_Witness ==
    /\ Built
    /\ NumVotes("APPROVE") = 2
    /\ NumVotes("REJECT") = 2
    /\ TheConsensus.final_decision = "REJECT"

PanelNames == Range(agents)
OrderedPairs == {p \in PanelNames \X PanelNames : p[1] /= p[2]}
ResponsePairs == {<<responses[i].agent_name, responses[i].responding_to>> :
                    i \in 1..Len(responses)}

\* C2: when every review call and every respond call succeeded, Round 2
\* returns exactly N*(N-1) Responses, one per ordered pair of distinct
\* reviewers; whenever it returns it holds at most N*(N-1) Responses.
C2_AllOrderedPairs ==
    RanResponses =>
        /\ Len(responses) <= Len(agents) * (Len(agents) - 1)
        /\ (Len(reviews) = Len(agents) /\ FailedOfKind("respond") = {}) =>
              /\ Len(responses) = Len(agents) * (Len(agents) - 1)
              /\ ResponsePairs = OrderedPairs

C2_Witness ==
    /\ LastOp = "run_responses"
    /\ Returned
    /\ Len(agents) = 4
    /\ Len(responses) = 12
    /\ ResponsePairs = OrderedPairs

\* the last call was a full debate in which exactly one review call failed
\* and no other call did
OneReviewFailed ==
    /\ LastOp = "run_full_debate"
    /\ Cardinality(outcome.failed) = 1
    /\ FailedOfKind("review") = outcome.failed

HoldsConsensus ==
    /\ consensus /= <<>>
    /\ TheConsensus.session_id = session_id

\* C3 as stated: one failing review in a panel of 4 leaves 3 Reviews and
\* 3*2 = 6 Responses, and the debate ends with a Consensus (here for a
\* non-empty code text, so that every round runs).
C3_AsStated ==
    (OneReviewFailed /\ Len(agents) = 4 /\ TruthyStr(code)) =>
        /\ Len(reviews) = 3
        /\ Len(responses) = 6
        /\ Returned
        /\ HoldsConsensus

\* C3 (amended): every panel member, the one whose review failed included,
\* responds to every Review but its own: with k Reviews out of N and no
\* failing respond call Round 2 yields k*(N-1) Responses, 9 for one failing
\* review in a panel of 4; that debate ends with a Consensus unless the
\* code text is empty, in which case it raises 'No active session' after
\* Round 1.
C3_EveryPanelMemberResponds ==
    /\ (RanResponses /\ FailedOfKind("respond") = {}) =>
          Len(responses) = Len(reviews) * (Len(agents) - 1)
    /\ (OneReviewFailed /\ Len(agents) = 4) =>
          /\ Len(reviews) = 3
          /\ IF code = ""
             THEN outcome.raised = ErrNoSession /\ CallsOfKind("respond") = {}
             ELSE /\ Len(responses) = 9
                  /\ Returned
                  /\ HoldsConsensus

C3_Witness ==
    /\ OneReviewFailed
    /\ Len(agents) = 4
    /\ Len(reviews) = 3
    /\ Len(responses) = 9
    /\ Returned
    /\ HoldsConsensus

\* what the calls that succeeded return
ExpectedReviews ==
    {ReviewModel(Agent_review(t[2], AgentFindings), session_id) :
        t \in CallsOfKind("review") \ outcome.failed}
ExpectedResponses ==
    {[agent_name |-> t[2], responding_to |-> t[3], session_id |-> session_id] :
        t \in CallsOfKind("respond") \ outcome.failed}
ExpectedVotes ==
    {[agent_name |-> t[2], decision |-> AgentDecisions[t[2]],
      session_id |-> session_id] :
        t \in CallsOfKind("vote") \ outcome.failed}

IsRound == LastOp \in {"start_review", "run_responses", "run_voting"}

\* C4: in each round a failing call neither aborts the round nor touches
\* the result of another call: the round returns normally and its result
\* holds exactly the results of the calls that succeeded.
C4_FailuresAreIsolated ==
    /\ (IsRound /\ outcome.calls /= <<>>) => Returned
    /\ CallsOfKind("review") /= {} =>
          /\ Range(reviews) = ExpectedReviews
          /\ Len(reviews) = Cardinality(ExpectedReviews)
    /\ (RanResponses /\ CallsOfKind("respond") /= {}) =>
          /\ Range(responses) = ExpectedResponses
          /\ Len(responses) = Cardinality(ExpectedResponses)
    /\ (RanVoting /\ CallsOfKind("vote") /= {}) =>
          /\ Range(votes) = ExpectedVotes
          /\ Len(votes) = Cardinality(ExpectedVotes)

\* one respond call of twelve failed, the other eleven Responses are there
C4_Witness ==
    /\ LastOp = "run_responses"
    /\ Returned
    /\ Cardinality(outcome.failed) = 1
    /\ Len(responses) = 11
    /\ Range(responses) = ExpectedResponses

\* a step that is a call of handler `op`
Calls(op) == nops' = nops + 1 /\ outcome'.op = op

AllFailed(kind) ==
    CallsOfKind(kind) /= {} /\ FailedOfKind(kind) = CallsOfKind(kind)

\* C5: with an empty Review set run_responses and run_voting raise their
\* precondition error, dispatch no reviewer call, call the Storage not at
\* all and leave the Responses and the Votes as they were; a full debate
\* whose review calls all fail ends before any respond or vote call.
C5_NoReviewsNoRound ==
    /\ [][(Calls("run_responses") /\ reviews = <<>>) =>
             /\ outcome'.raised = ErrNoReviewsRespond
             /\ outcome'.calls = <<>>
             /\ storage' = storage
             /\ responses' = responses
             /\ votes' = votes]_vars
    /\ [][(Calls("run_voting") /\ reviews = <<>>) =>
             /\ outcome'.raised = ErrNoReviewsVote
             /\ outcome'.calls = <<>>
             /\ storage' = storage
             /\ responses' = responses
             /\ votes' = votes]_vars
    /\ [][(Calls("run_full_debate") /\ reviews' = <<>>) =>
             /\ outcome'.raised \in {ErrNoReviewsRespond, ErrMaxWorkers}
             /\ responses' = responses
             /\ votes' = votes]_vars
    /\ [](LastOp = "run_full_debate" /\ AllFailed("review") =>
             /\ outcome.raised = ErrNoReviewsRespond
             /\ CallsOfKind("respond") = {}
             /\ CallsOfKind("vote") = {})

\* every review call of the session failed, and run_voting refused to run
C5_Witness ==
    /\ LastOp = "run_voting"
    /\ outcome.raised = ErrNoReviewsVote
    /\ session_id /= NoSession
    /\ storage.reviews = <<>>

SavedConsensusOf(sid) ==
    {i \in 1..Len(storage.consensus) : storage.consensus[i].session_id = sid}

\* C6: with an empty Vote set build_consensus raises the 'no votes' error,
\* creates no Consensus and saves none; a full debate whose vote calls all
\* fail raises instead of returning a Consensus.
C6_NoVotesNoConsensus ==
    /\ [][(Calls("build_consensus") /\ votes = <<>>) =>
             /\ outcome'.raised = ErrNoVotes
             /\ consensus' = consensus
             /\ storage' = storage]_vars
    /\ [][(Calls("run_full_debate") /\ votes' = <<>>) =>
             /\ outcome'.raised /= NoError
             /\ consensus' = consensus
             /\ storage'.consensus = storage.consensus]_vars
    /\ [](LastOp = "run_full_debate" /\ AllFailed("vote") =>
             /\ outcome.raised = ErrNoVotes
             /\ ~HoldsConsensus
             /\ SavedConsensusOf(session_id) = {})

\* a full debate in which every vote call failed
C6_Witness ==
    /\ LastOp = "run_full_debate"
    /\ AllFailed("vote")
    /\ votes = <<>>
    /\ outcome.raised = ErrNoVotes

\* the issue mentions of the Reviews, by position (review, index)
IssuePositions ==
    {<<i, j>> : i \in 1..Len(reviews), j \in 1..MaxMentions + 1}
        \cap {p \in (1..Len(reviews)) \X (1..MaxMentions + 1) :
                 p[2] <= Len(reviews[p[1]].issues)}
IssueAt(p) == reviews[p[1]].issues[p[2]]
MentionsOf(d) ==
    {p \in IssuePositions : Normalize(IssueAt(p).description) = d}
NormTexts == {Normalize(t) : t \in Texts}
KeyIndexOf(d) ==
    {i \in 1..Len(TheConsensus.key_issues) :
        Normalize(TheConsensus.key_issues[i].description) = d}

FirstMention(d) ==
    CHOOSE p \in MentionsOf(d) :
        \A q \in MentionsOf(d) :
            p[1] < q[1] \/ (p[1] = q[1] /\ p[2] <= q[2])

\* C8: a description found in two or more Reviews is in keyIssues exactly
\* once, as the original record of its first occurrence; no two entries of
\* keyIssues have the same normalized description.
C8_FirstSeenOnce ==
    Built =>
        \A d \in NormTexts :
            /\ Cardinality(KeyIndexOf(d)) <= 1
            /\ Cardinality({p[1] : p \in MentionsOf(d)}) >= 2 =>
                  /\ Cardinality(KeyIndexOf(d)) = 1
                  /\ \A i \in KeyIndexOf(d) :
                        TheConsensus.key_issues[i] = IssueAt(FirstMention(d))

\* two Reviews word the same issue differently; the first wording is kept
C8_Witness ==
    /\ Built
    /\ Len(reviews) >= 2
    /\ reviews[1].issues = <<[description |-> <<" ", "A", " ">>, severity |-> "LOW"]>>
    /\ reviews[2].issues = <<[description |-> <<"a">>, severity |-> "MEDIUM"]>>
    /\ TheConsensus.key_issues = reviews[1].issues

SuggestionPositions ==
    {p \in (1..Len(reviews)) \X (1..MaxMentions + 1) :
        p[2] <= Len(reviews[p[1]].suggestions)}
SuggestedBy(d) ==
    {p[1] : p \in {q \in SuggestionPositions :
                     Normalize(reviews[q[1]].suggestions[q[2]]) = d}}
AcceptedIndexOf(d) ==
    {i \in 1..Len(TheConsensus.accepted_suggestions) :
        Normalize(TheConsensus.accepted_suggestions[i]) = d}

\* C9: a suggestion (lower-cased, trimmed) made by exactly one reviewer is
\* never in acceptedSuggestions, whatever that reviewer's list holds; one
\* made by exactly two reviewers is there exactly once.
C9_AsStated ==
    Built =>
        \A d \in NormTexts :
            /\ Cardinality(SuggestedBy(d)) = 1 => AcceptedIndexOf(d) = {}
            /\ Cardinality(SuggestedBy(d)) = 2 =>
                  Cardinality(AcceptedIndexOf(d)) = 1

C11_AsStated ==
    \A sid \in 1..Len(storage.sessions) :
        Cardinality(SavedConsensusOf(sid)) <= 1

\* C11: a Consensus is persisted only by a build_consensus (alone or at the
\* end of run_full_debate) that returns normally and holds at least one
\* Vote; each such call persists exactly one Consensus, tagged with the
\* current session id, after the ones persisted before, and that Consensus
\* is the one the orchestrator then holds. The Consensus held changes in no
\* other way. A full debate that returns has persisted exactly one Consensus
\* for its session. build_consensus may be called again for the same
\* session: it persists one more Consensus for it.
C11_OneConsensusPerBuild ==
    /\ [][storage'.consensus /= storage.consensus =>
             /\ outcome'.op \in {"build_consensus", "run_full_debate"}
             /\ outcome'.raised = NoError
             /\ votes' /= <<>>
             /\ Len(storage'.consensus) = Len(storage.consensus) + 1
             /\ SubSeq(storage'.consensus, 1, Len(storage.consensus))
                    = storage.consensus
             /\ consensus' = <<storage'.consensus[Len(storage'.consensus)]>>
             /\ consensus'[1].session_id = session_id']_vars
    /\ [][consensus' /= consensus =>
             storage'.consensus /= storage.consensus]_vars
    /\ [][(Calls("build_consensus") /\ outcome'.raised = NoError) =>
             /\ Len(storage'.consensus) = Len(storage.consensus) + 1
             /\ session_id' = session_id]_vars
    /\ [](LastOp = "run_full_debate" /\ Returned =>
             Cardinality(SavedConsensusOf(session_id)) = 1)

\* build_consensus called again after a full debate: two Consensus records
\* persisted for the one session
C11_Witness ==
    /\ Built
    /\ Cardinality(SavedConsensusOf(session_id)) = 2
    /\ consensus = <<storage.consensus[Len(storage.consensus)]>>

\* C12: after build_consensus, voteCounts has exactly the keys APPROVE,
\* REJECT and ABSTAIN, each with the number of Votes of that decision (0
\* when there is none), and the three counts add up to the number of Votes.
C12_VoteCountsTally ==
    Built =>
        /\ DOMAIN TheConsensus.vote_counts = {"APPROVE", "REJECT", "ABSTAIN"}
        /\ \A d \in {"APPROVE", "REJECT", "ABSTAIN"} :
              TheConsensus.vote_counts[d] = NumVotes(d)
        /\ TheConsensus.vote_counts["APPROVE"]
             + TheConsensus.vote_counts["REJECT"]
             + TheConsensus.vote_counts["ABSTAIN"] = Len(votes)

\* three Votes, APPROVE, APPROVE and ABSTAIN: counts 2, 0 and 1
C12_Witness ==
    /\ Built
    /\ Len(votes) = 3
    /\ TheConsensus.vote_counts["APPROVE"] = 2
    /\ TheConsensus.vote_counts["REJECT"] = 0
    /\ TheConsensus.vote_counts["ABSTAIN"] = 1
    /\ TheConsensus.final_decision = "APPROVE"

\* C13 as stated: in every Consensus built, the APPROVE and the REJECT
\* counts are not both 0.
C13_AsStated ==
    Built =>
        ~(/\ TheConsensus.vote_counts["APPROVE"] = 0
          /\ TheConsensus.vote_counts["REJECT"] = 0)

\* C13: in every Consensus built the three counts are not all 0, since
\* building requires a Vote; APPROVE and REJECT are both 0 exactly when
\* every Vote is ABSTAIN, and the decision is then REJECT.
C13_AllAbstainRejects ==
    Built =>
        /\ TheConsensus.vote_counts["APPROVE"]
             + TheConsensus.vote_counts["REJECT"]
             + TheConsensus.vote_counts["ABSTAIN"] >= 1
        /\ (/\ TheConsensus.vote_counts["APPROVE"] = 0
            /\ TheConsensus.vote_counts["REJECT"] = 0)
              <=> (\A i \in 1..Len(votes) : votes[i].decision = "ABSTAIN")
        /\ (/\ TheConsensus.vote_counts["APPROVE"] = 0
            /\ TheConsensus.vote_counts["REJECT"] = 0)
              => TheConsensus.final_decision = "REJECT"

\* every reviewer abstained: the tie is 0 to 0
C13_Witness ==
    /\ Built
    /\ Len(votes) >= 2
    /\ \A i \in 1..Len(votes) : votes[i].decision = "ABSTAIN"
    /\ TheConsensus.vote_counts["APPROVE"] = 0
    /\ TheConsensus.vote_counts["REJECT"] = 0
    /\ TheConsensus.final_decision = "REJECT"

\* the artifacts of the round are all in memory
RoundResultsKept ==
    /\ LastOp = "start_review" =>
          /\ Range(reviews) = ExpectedReviews
          /\ Len(reviews) = Cardinality(ExpectedReviews)
    /\ LastOp = "run_responses" /\ CallsOfKind("respond") /= {} =>
          /\ Range(responses) = ExpectedResponses
          /\ Len(responses) = Cardinality(ExpectedResponses)
    /\ LastOp = "run_voting" /\ CallsOfKind("vote") /= {} =>
          /\ Range(votes) = ExpectedVotes
          /\ Len(votes) = Cardinality(ExpectedVotes)

\* C14: when a save call of the Storage fails the debate continues: the
\* handler does not end with the Storage's error, and the artifact whose
\* save failed and the later ones of the round are in the in-memory
\* collection all the same.
C14_AsStated ==
    /\ outcome.raised /= ErrStorage
    /\ RoundResultsKept

\* C15: start_review on an orchestrator constructed with an empty panel
\* raises an error, dispatches no reviewer call and produces no Review.
C15_AsStated ==
    [][(/\ outcome.op = "__init__"
        /\ outcome.personas = <<>>
        /\ Calls("start_review")) =>
          /\ outcome'.raised /= NoError
          /\ outcome'.calls = <<>>
          /\ reviews' = <<>>]_vars

\* C16: when at least one review call and at least one vote call of a
\* full debate succeed, the debate returns a Consensus whatever other
\* reviewer calls fail; the Consensus is the one persisted, and it is
\* computed from the Reviews and the Votes of the calls that succeeded.
C16_PartialPanelConsensus ==
    (/\ LastOp = "run_full_debate"
     /\ CallsOfKind("review") \ outcome.failed /= {}
     /\ CallsOfKind("vote") \ outcome.failed /= {}) =>
        /\ Returned
        /\ HoldsConsensus
        /\ Range(reviews) = ExpectedReviews
        /\ Range(votes) = ExpectedVotes
        /\ \A d \in VoteDecision : TheConsensus.vote_counts[d] = NumVotes(d)
        /\ TheConsensus.final_decision =
              IF NumVotes("APPROVE") > NumVotes("REJECT")
              THEN "APPROVE" ELSE "REJECT"
        /\ \A i \in 1..Len(TheConsensus.key_issues) :
              \E j \in 1..Len(reviews) :
                 TheConsensus.key_issues[i] \in Range(reviews[j].issues)
        /\ SavedConsensusOf(session_id) = {Len(storage.consensus)}
        /\ storage.consensus[Len(storage.consensus)] = TheConsensus

\* the vote call of PerformanceEngineer failed: a Consensus from three Votes,
\* 1 APPROVE against 1 REJECT
C16_Witness ==
    /\ LastOp = "run_full_debate"
    /\ Len(agents) = 4
    /\ outcome.failed = {Task("vote", "PerformanceEngineer", "")}
    /\ Returned
    /\ HoldsConsensus
    /\ Len(votes) = 3
    /\ TheConsensus.final_decision = "REJECT"

\* the round `op` has been run step by step and has returned
RoundDone(op) == round.pc = "idle" /\ round.op = op

\* the calls of the round that returned a result
Succeeded == Range(round.calls) \ round.failed

\* what the Storage was given for session `sid`, in call order
SavedOf(log, sid) ==
    LET mine == SelectSeq(log, LAMBDA e : e[1] = sid)
    IN [i \in 1..Len(mine) |-> mine[i][2]]

\* C17: whatever the order in which the review calls complete, the Reviews
\* in memory and the save_review calls follow the order of the panel,
\* restricted to the reviewers whose call succeeded.
C17_ReviewsInPanelOrder ==
    RoundDone("start_review") =>
        /\ [i \in 1..Len(reviews) |-> reviews[i].agent_name]
              = SelectSeq(agents,
                          LAMBDA a : Task("review", a, "") \in Succeeded)
        /\ SavedOf(storage.reviews, session_id) = reviews

\* four review calls completing third, first, fourth, second, the first of
\* the panel failing
C17_Witness ==
    /\ RoundDone("start_review")
    /\ Len(agents) = 4
    /\ round.done = <<3, 1, 4, 2>>
    /\ round.failed = {Task("review", "SecurityExpert", "")}
    /\ Len(reviews) = 3
    /\ reviews[1].agent_name = "PerformanceEngineer"

\* C18: whatever the order in which the calls complete, the Responses that
\* run_responses returns and saves are in ascending (agent_name,
\* responding_to) order and the Votes that run_voting returns and saves are
\* in ascending agent_name order; each list holds the results of the calls
\* that succeeded, so it depends on them only.
C18_SortedResults ==
    /\ RoundDone("run_responses") =>
          /\ \A i, j \in 1..Len(responses) :
                i < j =>
                   \/ StrLess(responses[i].agent_name, responses[j].agent_name)
                   \/ /\ responses[i].agent_name = responses[j].agent_name
                      /\ StrLess(responses[i].responding_to,
                                 responses[j].responding_to)
          /\ Range(responses) =
                {[agent_name |-> t[2], responding_to |-> t[3],
                  session_id |-> session_id] : t \in Succeeded}
          /\ SavedOf(storage.responses, session_id) = responses
    /\ RoundDone("run_voting") =>
          /\ \A i, j \in 1..Len(votes) :
                i < j => StrLess(votes[i].agent_name, votes[j].agent_name)
          /\ {votes[i].agent_name : i \in 1..Len(votes)}
                = {t[2] : t \in Succeeded}
          /\ SavedOf(storage.votes, session_id) = votes

\* six respond calls completing in an order that is neither the submission
\* order nor the sorted one
C18_Witness ==
    /\ RoundDone("run_responses")
    /\ round.done = <<3, 1, 4, 2, 6, 5>>
    /\ round.failed = {}
    /\ Len(responses) = 6
    /\ responses[1].agent_name = "ArchitectureCritic"
    /\ responses[1].responding_to = "PerformanceEngineer"

\* C20: while a call of the round is outstanding, no step changes the
\* Reviews, the Responses or the Votes in memory or calls the Storage, and
\* the round does not return; it returns only when every call it submitted
\* has settled.
C20_NothingStoredBeforeJoin ==
    /\ [][(round.pc = "running" /\ round.pending /= {}) =>
             /\ reviews' = reviews
             /\ responses' = responses
             /\ votes' = votes
             /\ storage' = storage
             /\ outcome' = outcome
             /\ nops' = nops
             /\ round'.pc = "running"]_vars
    /\ [][(round.pc = "running" /\ round'.pc = "idle") =>
             /\ round.pending = {}
             /\ Len(round.done) = Len(round.calls)
             /\ round' = [round EXCEPT !.pc = "idle"]]_vars

\* five of six respond calls have returned and one is outstanding: no
\* Response is in memory or in the Storage yet
C20_Witness ==
    /\ round.pc = "running"
    /\ round.op = "run_responses"
    /\ Len(round.done) = 5
    /\ round.failed = {}
    /\ Cardinality(round.pending) = 1
    /\ responses = <<>>
    /\ storage.responses = <<>>

\* C19: a reviewer call that returns a structurally invalid result (a
\* required field is missing) counts as a failed call: the round does not
\* end with an error, and it completes with the results of the others.
C19_AsStated ==
    /\ outcome.raised /= ErrInvalidResult
    /\ LastOp = "start_review" =>
          /\ Returned
          /\ Len(reviews) >= Len(agents) - 1
    /\ LastOp = "run_voting" /\ outcome.calls /= <<>> =>
          /\ Returned
          /\ Len(votes) >= Len(agents) - 1

\* the calls that have been submitted and have not settled
InFlight == {round.calls[i] : i \in round.pending}

\* C21: in a full debate a stage is entered, and its calls are submitted,
\* only when no call is outstanding: Round 2 after the join of Round 1,
\* Round 3 after the join of Round 2, and the Consensus is built after
\* every vote call has settled. The calls in flight are those of one round.
C21_OneRoundAtATime ==
    /\ [](\A t, u \in InFlight : t[1] = u[1])
    /\ [][round'.op /= round.op =>
             /\ InFlight = {}
             /\ Len(round.done) = Len(round.calls)]_vars
    /\ [][(InFlight' /= {} /\ round'.op /= round.op) =>
             <<round.op, round'.op>> \in
                {<<"none", "start_review">>,
                 <<"start_review", "run_responses">>,
                 <<"run_responses", "run_voting">>}]_vars
    /\ [][consensus' /= consensus =>
             /\ round.op = "run_voting"
             /\ InFlight = {}
             /\ CallsOfKind("vote") = Range(round.calls)]_vars

\* a vote call is outstanding: every review and every respond call has
\* settled, the Reviews and the Responses are stored, no Vote is
C21_Witness ==
    /\ round.op = "run_voting"
    /\ round.pc = "running"
    /\ Cardinality(InFlight) = 1
    /\ Len(reviews) = 3
    /\ Len(responses) = 6
    /\ votes = <<>>
    /\ consensus = <<>>

\* the calls the round has to make, one per task
TasksOfRound ==
    CASE round.op = "start_review" ->
           {Task("review", agents[i], "") : i \in 1..Len(agents)}
      [] round.op = "run_responses" ->
           {Task("respond", agents[i], reviews[j].agent_name) :
               <<i, j>> \in {p \in (1..Len(agents)) \X (1..Len(reviews)) :
                               agents[p[1]] /= reviews[p[2]].agent_name}}
      [] round.op = "run_voting" ->
           {Task("vote", agents[i], "") : i \in 1..Len(agents)}
      [] OTHER -> {}

\* C22: in a round every task is attempted exactly once: the calls
\* submitted are the tasks of the round, one call each; a call settles once,
\* whether it returns or raises, and is never submitted again; when the
\* round returns every call has settled.
C22_EachTaskOnce ==
    /\ Range(round.calls) = TasksOfRound
    /\ Len(round.calls) = Cardinality(TasksOfRound)
    /\ \A k, l \in 1..Len(round.done) :
          round.done[k] = round.done[l] => k = l
    /\ Range(round.done) \cap round.pending = {}
    /\ Range(round.done) \cup round.pending = 1..Len(round.calls)
    /\ round.failed \subseteq {round.calls[i] : i \in Range(round.done)}
    /\ round.pc = "idle" /\ round.op /= "none" =>
          /\ Len(round.done) = Len(round.calls)
          /\ outcome.calls = round.calls
          /\ outcome.failed = round.failed

\* six respond calls, one of which raised: six attempts, five Responses
C22_Witness ==
    /\ RoundDone("run_responses")
    /\ Len(round.done) = 6
    /\ Cardinality(round.failed) = 1
    /\ Len(responses) = 5

\* C23: no Response, in memory or saved, has agent_name equal to
\* responding_to, and the Responses of one execution of run_responses have
\* pairwise different (agent_name, responding_to) pairs.
C23_NoSelfNoDuplicateResponse ==
    /\ \A i \in 1..Len(responses) :
          responses[i].agent_name /= responses[i].responding_to
    /\ \A i \in 1..Len(storage.responses) :
          storage.responses[i][2].agent_name
              /= storage.responses[i][2].responding_to
    /\ \A i, j \in 1..Len(responses) :
          (/\ responses[i].agent_name = responses[j].agent_name
           /\ responses[i].responding_to = responses[j].responding_to)
              => i = j

\* the twelve Responses of a panel of four
C23_Witness ==
    /\ LastOp = "run_responses"
    /\ Returned
    /\ Len(responses) = 12
    /\ Len(storage.responses) = 12

\* the ReviewResults of the Reviews saved for session `sid`
ReviewResultsOf(sid) ==
    LET mine == SavedOf(storage.reviews, sid)
    IN [i \in 1..Len(mine) |-> ReviewResultOf(mine[i])]

\* the ResponseResults of the Responses saved for session `sid`
ResponseResultsOf(sid) ==
    LET mine == SavedOf(storage.responses, sid)
    IN [i \in 1..Len(mine) |-> ResponseResultOf(mine[i])]

\* no two Votes of `vs` name the same agent
OneVotePerAgent(vs) ==
    \A i, j \in 1..Len(vs) : vs[i].agent_name = vs[j].agent_name => i = j

\* C24: when run_voting returns, its vote calls were given all the Reviews
\* and all the Responses of the current session, and nothing else, and the
\* Votes it returns hold at most one Vote per panel member.
C24_AsStated ==
    (LastOp = "run_voting" /\ Returned) =>
        /\ outcome.given.review_results = ReviewResultsOf(session_id)
        /\ outcome.given.response_results = ResponseResultsOf(session_id)
        /\ OneVotePerAgent(votes)

\* the Votes given to save_vote so far, for session `sid`
SavedVotesOf(sid) == SavedOf(storage.votes, sid)

\* C25 as stated: for every session id the Votes given to save_vote hold at
\* most one Vote per agent_name.
C25_AsStated ==
    \A sid \in 1..Len(storage.sessions) : OneVotePerAgent(SavedVotesOf(sid))

\* C25: save_vote is called only by run_voting, alone or within
\* run_full_debate; the Votes one execution saves come after those saved
\* before, are tagged with the current session id, hold at most one Vote
\* per agent_name and are the Votes the orchestrator holds afterwards.
\* run_voting may run again for the same session: it saves one more Vote
\* per panel member for it.
C25_OneVotePerAgentPerVoting ==
    [][storage'.votes /= storage.votes =>
          LET old == Len(storage.votes)
              new == [i \in 1..(Len(storage'.votes) - old) |->
                          storage'.votes[old + i]]
          IN /\ outcome'.op \in {"run_voting", "run_full_debate"}
             /\ SubSeq(storage'.votes, 1, old) = storage.votes
             /\ \A i \in 1..Len(new) : new[i][1] = session_id'
             /\ [i \in 1..Len(new) |-> new[i][2]] = votes'
             /\ OneVotePerAgent(votes')]_vars

\* run_voting run again after a full debate of three reviewers: six Votes
\* saved for the one session, two per reviewer, three held
C25_Witness ==
    /\ LastOp = "run_voting" /\ Returned
    /\ Len(agents) = 3
    /\ Len(SavedVotesOf(session_id)) = 6
    /\ Len(votes) = 3
    /\ ~OneVotePerAgent(SavedVotesOf(session_id))

\* the Reviews given to save_review so far, for session `sid`
SavedReviewsOf(sid) == SavedOf(storage.reviews, sid)

\* no two Reviews of `rs` name the same agent
OneReviewPerAgent(rs) ==
    \A i, j \in 1..Len(rs) : rs[i].agent_name = rs[j].agent_name => i = j

\* C26: for every session id, the Reviews the orchestrator holds and the
\* Reviews given to save_review hold at most one Review per agent_name; the
\* Reviews held are those saved for the current session.
C26_OneReviewPerAgentPerSession ==
    /\ \A sid \in 1..Len(storage.sessions) :
          /\ OneReviewPerAgent(SavedReviewsOf(sid))
          /\ OneReviewPerAgent(
                 SelectSeq(reviews, LAMBDA r : r.session_id = sid))
    /\ \A i \in 1..Len(storage.reviews) :
          storage.reviews[i][1] \in 1..Len(storage.sessions)
    /\ \A i \in 1..Len(reviews) : reviews[i].session_id = session_id
    /\ session_id /= NoSession => reviews = SavedReviewsOf(session_id)

\* three sessions of a panel of three, each with its three Reviews saved
C26_Witness ==
    /\ LastOp = "start_review" /\ Returned
    /\ Len(storage.sessions) = 3
    /\ Len(storage.reviews) = 9
    /\ Len(reviews) = 3

\* the panel is one reviewer and the orchestrator holds its Review
SingleReviewed == Len(agents) = 1 /\ Len(reviews) = 1

\* C27 as stated: with a panel of one reviewer whose review succeeded,
\* run_responses dispatches no respond call and returns no Response without
\* raising, and a full debate in which no call fails goes on to the votes
\* and returns a Consensus.
C27_AsStated ==
    /\ (LastOp = "run_responses" /\ SingleReviewed) =>
           /\ Returned
           /\ outcome.calls = <<>>
           /\ responses = <<>>
    /\ (LastOp = "run_full_debate" /\ SingleReviewed /\ outcome.failed = {}) =>
           /\ Returned
           /\ "vote" \in stages
           /\ HoldsConsensus

\* the entries the save calls of one round add to a log of the Storage
\* for the artifacts `kept` of session `sid`
SaveCallsFor(kept, sid) == [i \in 1..Len(kept) |-> <<sid, kept[i]>>]

\* C28: when a round returns normally, the save calls it made, one per
\* artifact, carry the artifacts of the collection it returns, element for
\* element and in the same order, and it saved nothing else; a
\* build_consensus that returns made exactly one save_consensus call, with
\* the Consensus it returns; a full debate that returns did all four.
C28_SavedAsReturned ==
    /\ [][(Calls("start_review") /\ outcome'.raised = NoError) =>
             /\ storage'.reviews
                   = storage.reviews \o SaveCallsFor(reviews', session_id')
             /\ storage'.responses = storage.responses
             /\ storage'.votes = storage.votes
             /\ storage'.consensus = storage.consensus]_vars
    /\ [][(Calls("run_responses") /\ outcome'.raised = NoError) =>
             /\ storage'.responses
                   = storage.responses \o SaveCallsFor(responses', session_id')
             /\ storage'.reviews = storage.reviews
             /\ storage'.votes = storage.votes
             /\ storage'.consensus = storage.consensus]_vars
    /\ [][(Calls("run_voting") /\ outcome'.raised = NoError) =>
             /\ storage'.votes
                   = storage.votes \o SaveCallsFor(votes', session_id')
             /\ storage'.reviews = storage.reviews
             /\ storage'.responses = storage.responses
             /\ storage'.consensus = storage.consensus]_vars
    /\ [][(Calls("build_consensus") /\ outcome'.raised = NoError) =>
             /\ storage'.consensus = Append(storage.consensus, consensus'[1])
             /\ storage'.reviews = storage.reviews
             /\ storage'.responses = storage.responses
             /\ storage'.votes = storage.votes]_vars
    /\ [][(Calls("run_full_debate") /\ outcome'.raised = NoError) =>
             /\ storage'.reviews
                   = storage.reviews \o SaveCallsFor(reviews', session_id')
             /\ storage'.responses
                   = storage.responses \o SaveCallsFor(responses', session_id')
             /\ storage'.votes
                   = storage.votes \o SaveCallsFor(votes', session_id')
             /\ storage'.consensus
                   = Append(storage.consensus, consensus'[1])]_vars

\* run_voting run again on a panel of three: three more Votes saved after
\* the three of the full debate, in the order of the Votes returned
C28_Witness ==
    /\ LastOp = "run_voting" /\ Returned
    /\ Len(votes) = 3
    /\ Len(storage.votes) = 6
    /\ SubSeq(storage.votes, 4, 6) = SaveCallsFor(votes, session_id)

\* Response sets other than the one the orchestrator holds
OtherResponses ==
    {<<>>,
     <<ResponseModel([agent_name |-> "SecurityExpert",
                      responding_to |-> "PerformanceEngineer"], session_id)>>,
     <<ResponseModel([agent_name |-> "PerformanceEngineer",
                      responding_to |-> "SecurityExpert"], session_id),
       ResponseModel([agent_name |-> "ArchitectureCritic",
                      responding_to |-> "SecurityExpert"], session_id)>>}

\* the Consensus build_consensus gives for the Reviews held, the Votes held
\* taken in the order `p` and the Responses `rs`
ConsensusFor(p, rs) ==
    build_consensus([Self EXCEPT
                        !.votes = [i \in 1..Len(votes) |-> votes[p[i]]],
                        !.responses = rs]).consensus[1]

\* C29: build_consensus run on the same Reviews in the same order and on
\* the same Votes in any other order, with any Response set, gives the
\* final_decision, vote_counts, key_issues and accepted_suggestions of the
\* Consensus it gave.
C29_SameInputsSameConsensus ==
    Built =>
        \A p \in Orders(Len(votes)), rs \in OtherResponses :
            /\ ConsensusFor(p, rs).final_decision
                  = TheConsensus.final_decision
            /\ ConsensusFor(p, rs).vote_counts = TheConsensus.vote_counts
            /\ ConsensusFor(p, rs).key_issues = TheConsensus.key_issues
            /\ ConsensusFor(p, rs).accepted_suggestions
                  = TheConsensus.accepted_suggestions

\* a Consensus built on four Votes of three different decisions, with a
\* key issue and an accepted suggestion
C29_Witness ==
    /\ Built
    /\ Len(votes) = 4
    /\ \A d \in VoteDecision : NumVotes(d) >= 1
    /\ TheConsensus.key_issues /= <<>>
    /\ TheConsensus.accepted_suggestions /= <<>>
    /\ \E p \in Orders(4) :
          [i \in 1..4 |-> votes[p[i]].decision]
              /= [i \in 1..4 |-> votes[i].decision]

\* position p comes before position q when the Reviews are scanned in
\* order, each list in its own order
Before(p, q) == p[1] < q[1] \/ (p[1] = q[1] /\ p[2] < q[2])

SuggestionsOf(d) ==
    {p \in SuggestionPositions :
        Normalize(reviews[p[1]].suggestions[p[2]]) = d}

\* the first time suggestion d is made, scanning the Reviews in order
FirstSuggestion(d) ==
    CHOOSE p \in SuggestionsOf(d) :
        \A q \in SuggestionsOf(d) : p = q \/ Before(p, q)

\* C30: key_issues holds the promoted issues, and accepted_suggestions the
\* promoted suggestions, each as the item found at its first mention and in
\* the order of these first mentions, scanning the Reviews in panel order
\* and the list of each Review in its own order.
C30_FirstSeenOrder ==
    Built =>
        /\ \A i, j \in 1..Len(TheConsensus.key_issues) :
              i < j =>
                 Before(
                   FirstMention(Normalize(TheConsensus.key_issues[i].description)),
                   FirstMention(Normalize(TheConsensus.key_issues[j].description)))
        /\ \A i \in 1..Len(TheConsensus.key_issues) :
              TheConsensus.key_issues[i]
                 = IssueAt(FirstMention(
                      Normalize(TheConsensus.key_issues[i].description)))
        /\ \A i, j \in 1..Len(TheConsensus.accepted_suggestions) :
              i < j =>
                 Before(
                   FirstSuggestion(Normalize(TheConsensus.accepted_suggestions[i])),
                   FirstSuggestion(Normalize(TheConsensus.accepted_suggestions[j])))
        /\ \A i \in 1..Len(TheConsensus.accepted_suggestions) :
              LET p == FirstSuggestion(
                          Normalize(TheConsensus.accepted_suggestions[i]))
              IN TheConsensus.accepted_suggestions[i]
                    = reviews[p[1]].suggestions[p[2]]

\* the two reviewers who suggest b come first in the panel: b is accepted
\* before a, and a in the wording of its first mention; the one key issue
\* is a record of the Reviews
C30_Witness ==
    /\ Built
    /\ Len(reviews) = 4
    /\ reviews[1].suggestions = <<<<"b">>>>
    /\ reviews[2].suggestions = <<<<" ", "A", " ">>, <<"b">>>>
    /\ TheConsensus.accepted_suggestions = <<<<"b">>, <<" ", "A", " ">>>>
    /\ Len(TheConsensus.key_issues) = 1
    /\ \E r \in 1..Len(reviews) :
          reviews[r].issues = <<TheConsensus.key_issues[1]>>

\* the calls of the round that a worker is running
Running == {round.calls[i] : i \in Started(round)}

\* C31 as stated: in every round the pool has as many workers as the round
\* has tasks, so that all the calls of the round are running at the same
\* time once they are submitted.
C31_AsStated ==
    round.pc = "running" =>
        /\ round.workers = Len(round.calls)
        /\ round.done = <<>> => Running = Range(round.calls)

\* run_full_debate has returned or raised
DebateOver == round.op = "run_full_debate"

\* the errors raised by the checks at the head of the stages
PreconditionErrors ==
    {ErrNoReviewsRespond, ErrNoReviewsVote, ErrNoVotes, ErrNoSession}

\* C32: when every call that runs settles and the Storage calls return,
\* run_full_debate comes to its end, returning the Consensus of its session
\* or raising the error of a stage's precondition; a round waits only for
\* calls it has submitted, and once they have all settled it goes on.
C32_DebateTerminates ==
    /\ <>DebateOver
    /\ [](DebateOver =>
             \/ Returned /\ HoldsConsensus
             \/ outcome.raised \in PreconditionErrors)
    /\ [](round.pending \subseteq 1..Len(round.calls))
    /\ (round.pc = "running") ~> (round.pc = "idle")
    /\ [](DebateOver => [](DebateOver /\ round.pending = {}))

\* a full debate of three reviewers has returned its Consensus after
\* twelve calls, the six respond calls having shared three workers
C32_Witness ==
    /\ DebateOver
    /\ Returned
    /\ HoldsConsensus
    /\ Len(agents) = 3
    /\ Len(reviews) = 3
    /\ Len(responses) = 6
    /\ Len(votes) = 3
    /\ round.workers = 3
    /\ round.pending = {}

\* the session of the orchestrator is left as it is, and no session is made
SessionKept ==
    /\ session_id' = session_id
    /\ code' = code
    /\ context' = context
    /\ storage'.sessions = storage.sessions

\* C33: run_responses, run_voting and build_consensus, whether they return
\* or raise, leave the session id, the code and the context as they are
\* and create no session; run_responses leaves the Reviews, run_voting the
\* Reviews and the Responses, build_consensus the Reviews, the Responses
\* and the Votes. A session is created by start_review only, alone or in
\* run_full_debate, one per call, with an id no session had before, and it
\* becomes the current one with the code and context given.
C33_FrameOfTheStages ==
    /\ [][Calls("run_responses") => SessionKept /\ reviews' = reviews]_vars
    /\ [][Calls("run_voting") =>
             /\ SessionKept
             /\ reviews' = reviews
             /\ responses' = responses]_vars
    /\ [][Calls("build_consensus") =>
             /\ SessionKept
             /\ reviews' = reviews
             /\ responses' = responses
             /\ votes' = votes]_vars
    /\ [][(Calls("start_review") \/ Calls("run_full_debate")) =>
             /\ Len(storage'.sessions) = Len(storage.sessions) + 1
             /\ SubSeq(storage'.sessions, 1, Len(storage.sessions))
                   = storage.sessions
             /\ \A i \in 1..Len(storage.sessions) :
                   storage.sessions[i].id /= session_id'
             /\ storage'.sessions[Len(storage'.sessions)]
                   = [id |-> session_id', code |-> code',
                      context |-> context']]_vars

\* run_voting has returned in the second session of an orchestrator that
\* still holds the Responses of the first
C33_Witness ==
    /\ LastOp = "run_voting" /\ Returned
    /\ Len(storage.sessions) = 2
    /\ session_id = 2
    /\ Len(reviews) = 3
    /\ Len(responses) = 6
    /\ Len(votes) = 3

\* every artifact of the sequence `xs` carries the current session id
OfCurrentSession(xs) == \A i \in 1..Len(xs) : xs[i].session_id = session_id

\* C34 as stated: in every reachable state the Reviews, Responses, Votes
\* and the Consensus the orchestrator holds carry the current session id;
\* so build_consensus tallies only Votes of the current session and
\* get_consensus returns only a Consensus built for it.
C34_AsStated ==
    /\ OfCurrentSession(reviews)
    /\ OfCurrentSession(responses)
    /\ OfCurrentSession(votes)
    /\ OfCurrentSession(consensus)

\* C35: the final_decision of a Consensus that build_consensus has built is
\* APPROVE or REJECT, never ABSTAIN, in memory and as saved; it is REJECT
\* when every Vote is ABSTAIN.
C35_NeverAbstain ==
    /\ Built =>
          /\ TheConsensus.final_decision \in {"APPROVE", "REJECT"}
          /\ NumVotes("ABSTAIN") = Len(votes) =>
                TheConsensus.final_decision = "REJECT"
    /\ \A i \in 1..Len(storage.consensus) :
          storage.consensus[i].final_decision /= "ABSTAIN"

\* three Votes, the fourth call having failed, all of them ABSTAIN: the
\* Consensus saved rejects
C35_Witness ==
    /\ Built
    /\ Len(votes) = 3
    /\ NumVotes("ABSTAIN") = 3
    /\ TheConsensus.vote_counts["ABSTAIN"] = 3
    /\ storage.consensus = <<TheConsensus>>
    /\ TheConsensus.final_decision = "REJECT"

\* start_review has been called on the orchestrator: each call creates a
\* session
ReviewStarted == storage.sessions /= <<>>

\* C36 as stated: run_responses, run_voting and build_consensus raise the
\* 'no active session' error only on an orchestrator on which start_review
\* has never been called, whatever the code text given to start_review.
C36_AsStated ==
    (/\ LastOp \in {"run_responses", "run_voting", "build_consensus"}
     /\ outcome.raised = ErrNoSession)
        => ~ReviewStarted

\* the Consensus records saved for session `sid`
ConsensusSavedFor(sid) ==
    SelectSeq(storage.consensus, LAMBDA c : c.session_id = sid)

\* C37 as stated: a review command all of whose reviewer calls failed has
\* saved no Consensus for its session, on the standard path and on the
\* --stream path; no session without a Review has a Consensus saved for it,
\* let alone one that approves.
C37_AsStated ==
    /\ (/\ LastOp \in {"review", "review --stream"}
        /\ outcome.calls /= <<>>
        /\ outcome.failed = Range(outcome.calls))
           => ConsensusSavedFor(session_id) = <<>>
    /\ \A sid \in 1..Len(storage.sessions) :
          SavedOf(storage.reviews, sid) = <<>> =>
              ConsensusSavedFor(sid) = <<>>

====
